---- MODULE Spec2Model ----
(***************************************************************************)
(* Model of ytt: the caption document parser (src/src/parser.rs), main,   *)
(* run and process_single_video (src/src/main.rs), and the playlist       *)
(* traverser and the transcript list of the library.                       *)
(*                                                                         *)
(* A Rust String is a sequence of characters; a character is a one-letter  *)
(* TLA+ string, so "&amp;" is <<"&", "a", "m", "p", ";">>.                 *)
(***************************************************************************)
EXTENDS Integers, Sequences, FiniteSets, TLC

VARIABLES
    s,          \* decode_html_entities: the argument s
    chars,      \* decode_html_entities: what the iterator `chars` has left
    dresult,    \* decode_html_entities: the String `result`
    dpc,        \* decode_html_entities: "loop" | "done" | "idle"
    parser,     \* the TranscriptParser: [_preserve_formatting]
    xml,        \* parse: the document, as the markup the reader splits it into
    frame,      \* parse: the state of the call,
                \*   reader:   the quick_xml Reader, [pos, opened]
                \*   pc:       "parse" | "text" | "p" | "done" | "idle"
                \*   items:    the Vec `items`
                \*   text, start, duration: the locals of parse_text_element
                \*             and parse_p_element
                \*   result:   what parse returned
    run,        \* main and run (src/src/main.rs): the state of the process,
                \*   see NewRun
    traverser,  \* get_playlist_video_ids: the state of the call, see NewTraversal
    query       \* find_transcript and translate: the state of the call,
                \*   see NewQuery

decodeVars == <<s, chars, dresult, dpc>>
parseVars == <<parser, xml, frame>>
runVars == <<run>>
libVars == <<traverser, query>>
vars == <<s, chars, dresult, dpc, parser, xml, frame, run, traverser, query>>

----------------------------------------------------------------------------
(* Strings *)

RECURSIVE Flatten(_)
Flatten(ss) == IF ss = <<>> THEN <<>> ELSE Head(ss) \o Flatten(Tail(ss))

\* All sequences over S of length 0..n.
SeqsUpTo(S, n) == UNION { [1..k -> S] : k \in 0..n }

StartsWith(str, pre) ==
    /\ Len(str) >= Len(pre)
    /\ SubSeq(str, 1, Len(pre)) = pre

Drop(str, n) == SubSeq(str, n + 1, Len(str))

\* char::is_whitespace, on the characters the model uses: the space, the
\* line feed, the tab and the no-break space U+00A0.
Whitespace == {" ", "\n", "\t", "U+160"}

\* The whitespace quick_xml trims from character data: ASCII only.
XmlWhitespace == {" ", "\n", "\t"}

RECURSIVE TrimStart(_, _)
TrimStart(str, ws) ==
    IF str # <<>> /\ Head(str) \in ws THEN TrimStart(Tail(str), ws) ELSE str

RECURSIVE TrimEnd(_, _)
TrimEnd(str, ws) ==
    IF str # <<>> /\ str[Len(str)] \in ws
    THEN TrimEnd(SubSeq(str, 1, Len(str) - 1), ws)
    ELSE str

\* str::trim
Trim(str) == TrimEnd(TrimStart(str, Whitespace), Whitespace)

\* The trimming of Reader::trim_text(true)
XmlTrim(str) == TrimEnd(TrimStart(str, XmlWhitespace), XmlWhitespace)

----------------------------------------------------------------------------
(* html_escape: character references *)

DecDigits == <<"0", "1", "2", "3", "4", "5", "6", "7", "8", "9">>
HexLower == <<"a", "b", "c", "d", "e", "f">>
HexUpper == <<"A", "B", "C", "D", "E", "F">>

IndexOf(seq, x) == CHOOSE i \in 1..Len(seq) : seq[i] = x
InSeq(seq, x) == \E i \in 1..Len(seq) : seq[i] = x

\* char::to_digit(radix): the digit's value, or -1 for a character that is no
\* digit of that radix.
ToDigit(ch, radix) ==
    IF InSeq(DecDigits, ch) THEN IndexOf(DecDigits, ch) - 1
    ELSE IF radix = 16 /\ InSeq(HexLower, ch) THEN IndexOf(HexLower, ch) + 9
    ELSE IF radix = 16 /\ InSeq(HexUpper, ch) THEN IndexOf(HexUpper, ch) + 9
    ELSE -1

\* One more than char::MAX (0x10FFFF).  A u32 above char::MAX is no character
\* and a value above u32::MAX does not parse: both take the same branch of
\* decode_entity, so the digit accumulator saturates here.
NoChar == 1114112

\* The digits of u32::from_str_radix, most significant first: the value
\* (saturated at NoChar), or -1 for an invalid digit.
RECURSIVE DigitsValue(_, _, _)
DigitsValue(ds, radix, acc) ==
    IF ds = <<>> THEN acc
    ELSE IF ToDigit(Head(ds), radix) < 0 THEN -1
    ELSE LET v == acc * radix + ToDigit(Head(ds), radix)
         IN  DigitsValue(Tail(ds), radix, IF v > NoChar THEN NoChar ELSE v)

\* u32::from_str_radix / str::parse::<u32>: an optional leading "+", then at
\* least one digit.  -1 is Err.
ParseU32(src, radix) ==
    LET ds == IF src # <<>> /\ Head(src) = "+" THEN Tail(src) ELSE src
    IN  IF ds = <<>> THEN -1 ELSE DigitsValue(ds, radix, 0)

\* char::from_u32(num).is_some()
IsChar(num) == num >= 0 /\ num < NoChar /\ ~(num >= 55296 /\ num <= 57343)

\* The character with code point num: the ASCII characters the model uses by
\* themselves, any other by its number.
CharOf(num) ==
    CASE num = 9 -> "\t"
      [] num = 10 -> "\n"
      [] num = 32 -> " "
      [] num = 34 -> "\""
      [] num = 38 -> "&"
      [] num = 39 -> "'"
      [] num = 59 -> ";"
      [] num = 60 -> "<"
      [] num = 62 -> ">"
      [] num = 65 -> "A"
      [] num = 97 -> "a"
      [] OTHER -> "U+" \o ToString(num)

Verbatim(entity) == <<"&">> \o entity \o <<";">>

\* decode_entity
DecodeEntity(entity) ==
    CASE entity = <<"q", "u", "o", "t">> -> <<"\"">>
      [] entity = <<"a", "m", "p">> -> <<"&">>
      [] entity = <<"a", "p", "o", "s">> -> <<"'">>
      [] entity = <<"l", "t">> -> <<"<">>
      [] entity = <<"g", "t">> -> <<">">>
      [] entity = <<"n", "b", "s", "p">> -> <<" ">>
      [] OTHER ->
            IF StartsWith(entity, <<"#", "x">>) \/ StartsWith(entity, <<"#", "X">>)
            THEN LET num == ParseU32(Drop(entity, 2), 16)
                 IN  IF IsChar(num) THEN <<CharOf(num)>> ELSE Verbatim(entity)
            ELSE IF StartsWith(entity, <<"#">>)
            THEN LET num == ParseU32(Drop(entity, 1), 10)
                 IN  IF IsChar(num) THEN <<CharOf(num)>> ELSE Verbatim(entity)
            ELSE Verbatim(entity)

\* The inner loop of decode_html_entities: the characters up to the next ";"
\* (consumed, not kept) or to the end of the input.
RECURSIVE TakeEntity(_, _)
TakeEntity(rest, entity) ==
    IF rest = <<>> THEN [entity |-> entity, rest |-> <<>>]
    ELSE IF Head(rest) = ";" THEN [entity |-> entity, rest |-> Tail(rest)]
    ELSE TakeEntity(Tail(rest), Append(entity, Head(rest)))

\* One iteration of `while let Some(ch) = chars.next()`, from a state
\* [chars, result] with chars not empty.
DecodeIteration(d) ==
    LET ch == Head(d.chars)
    IN  IF ch = "&"
        THEN LET e == TakeEntity(Tail(d.chars), <<>>)
             IN  [chars |-> e.rest, result |-> d.result \o DecodeEntity(e.entity)]
        ELSE [chars |-> Tail(d.chars), result |-> Append(d.result, ch)]

RECURSIVE DecodeLoop(_)
DecodeLoop(d) == IF d.chars = <<>> THEN d.result ELSE DecodeLoop(DecodeIteration(d))

\* decode_html_entities
DecodeHtmlEntities(str) == DecodeLoop([chars |-> str, result |-> <<>>])

----------------------------------------------------------------------------
(* f64: the timing attributes are IEEE 754 binary64 values.  A finite value  *)
(* is kept as its sign, its 53-bit significand and its binary exponent, so   *)
(* that equal records are equal doubles; the significand does not fit a TLC  *)
(* integer and is a natural number in limbs, least significant first.        *)

Base == 10000

\* Natural numbers: a sequence of limbs in 0..Base-1, least significant first,
\* the most significant limb not 0; <<>> is 0.
RECURSIVE BigNorm(_)
BigNorm(a) ==
    IF a # <<>> /\ a[Len(a)] = 0 THEN BigNorm(SubSeq(a, 1, Len(a) - 1)) ELSE a

RECURSIVE BigAddC(_, _, _)
BigAddC(a, b, carry) ==
    IF a = <<>> /\ b = <<>> THEN (IF carry = 0 THEN <<>> ELSE <<carry>>)
    ELSE LET x == IF a = <<>> THEN 0 ELSE Head(a)
             y == IF b = <<>> THEN 0 ELSE Head(b)
             v == x + y + carry
         IN  <<v % Base>> \o BigAddC(IF a = <<>> THEN a ELSE Tail(a),
                                     IF b = <<>> THEN b ELSE Tail(b), v \div Base)

BigAdd(a, b) == BigAddC(a, b, 0)

BigDouble(a) == BigAddC(a, a, 0)

\* a * k + carry, for a small k >= 1.
RECURSIVE BigMulSmallC(_, _, _)
BigMulSmallC(a, k, carry) ==
    IF a = <<>> THEN (IF carry = 0 THEN <<>> ELSE <<carry>>)
    ELSE LET v == Head(a) * k + carry
         IN  <<v % Base>> \o BigMulSmallC(Tail(a), k, v \div Base)

RECURSIVE BigSubB(_, _, _)
BigSubB(a, b, borrow) ==
    IF a = <<>> THEN <<>>
    ELSE LET y == IF b = <<>> THEN 0 ELSE Head(b)
             v == Head(a) - y - borrow
         IN  <<(v + Base) % Base>>
             \o BigSubB(Tail(a), IF b = <<>> THEN b ELSE Tail(b), IF v < 0 THEN 1 ELSE 0)

\* a - b, for a >= b.
BigSub(a, b) == BigNorm(BigSubB(a, b, 0))

RECURSIVE BigLessFrom(_, _, _)
BigLessFrom(a, b, i) ==
    IF i = 0 THEN FALSE
    ELSE IF a[i] # b[i] THEN a[i] < b[i]
    ELSE BigLessFrom(a, b, i - 1)

\* a < b
BigLess(a, b) ==
    IF Len(a) # Len(b) THEN Len(a) < Len(b) ELSE BigLessFrom(a, b, Len(a))

\* Multiplying by 2^Chunk keeps every limb product inside a TLC integer.
Chunk == 13
TwoToChunk == 8192

\* 2^n for 0 <= n <= Chunk.
RECURSIVE SmallPow2(_)
SmallPow2(n) == IF n <= 0 THEN 1 ELSE 2 * SmallPow2(n - 1)

\* a * 2^n (a itself for n <= 0)
RECURSIVE BigTimesPow2(_, _)
BigTimesPow2(a, n) ==
    IF n <= 0 THEN a
    ELSE IF n >= Chunk THEN BigTimesPow2(BigMulSmallC(a, TwoToChunk, 0), n - Chunk)
    ELSE BigMulSmallC(a, SmallPow2(n), 0)

RECURSIVE BigTimesPow10(_, _)
BigTimesPow10(a, n) == IF n <= 0 THEN a ELSE BigTimesPow10(BigMulSmallC(a, 10, 0), n - 1)

\* The natural number written by the decimal digits ds, most significant first.
RECURSIVE BigOfDigits(_, _)
BigOfDigits(ds, acc) ==
    IF ds = <<>> THEN acc
    ELSE BigOfDigits(Tail(ds),
                     BigMulSmallC(acc, 10, ToDigit(Head(ds), 10)))

MantissaBits == 53
MaxExp == 971

F64Nan == [cls |-> "nan"]
\* Err(ParseFloatError)
F64Err == [cls |-> "err"]
F64Inf(neg) == [cls |-> "inf", neg |-> neg]
F64Zero(neg) == [cls |-> "fin", neg |-> neg, mant |-> <<>>, exp |-> 0]

\* n, d and e with d <= n < 2d, the value n/d * 2^e unchanged.
RECURSIVE ScaleToUnit(_, _, _)
ScaleToUnit(n, d, e) ==
    IF BigLess(BigMulSmallC(n, TwoToChunk, 0), d)
    THEN ScaleToUnit(BigMulSmallC(n, TwoToChunk, 0), d, e - Chunk)
    ELSE IF ~BigLess(n, BigMulSmallC(d, TwoToChunk, 0))
    THEN ScaleToUnit(n, BigMulSmallC(d, TwoToChunk, 0), e + Chunk)
    ELSE IF BigLess(n, d) THEN ScaleToUnit(BigDouble(n), d, e - 1)
    ELSE IF ~BigLess(n, BigDouble(d)) THEN ScaleToUnit(n, BigDouble(d), e + 1)
    ELSE [n |-> n, d |-> d, e |-> e]

\* The next four binary digits of r/d (r < d): the q with q*d <= 16r < (q+1)*d.
QuotDigit(r16, d) ==
    CHOOSE k \in 0..15 :
        /\ ~BigLess(r16, BigNorm(BigMulSmallC(d, k, 0)))
        /\ BigLess(r16, BigMulSmallC(d, k + 1, 0))

\* Long division, four binary digits a step: from a significand mant and a
\* remainder r < d, the significand and remainder `steps` steps on.
RECURSIVE TakeBits(_, _, _, _)
RECURSIVE TakeDigit(_, _, _, _)
RECURSIVE TakeNext(_, _, _, _, _)
TakeBits(r, d, mant, steps) ==
    IF steps = 0 THEN [mant |-> mant, rem |-> r]
    ELSE TakeDigit(BigMulSmallC(r, 16, 0), d, mant, steps)

TakeDigit(r16, d, mant, steps) == TakeNext(r16, d, mant, steps, QuotDigit(r16, d))

TakeNext(r16, d, mant, steps, q) ==
    TakeBits(BigSub(r16, BigNorm(BigMulSmallC(d, q, 0))), d,
             BigMulSmallC(mant, 16, q), steps - 1)

F64Finite(mant, exp, neg) ==
    IF exp > MaxExp THEN F64Inf(neg)
    ELSE [cls |-> "fin", neg |-> neg, mant |-> mant, exp |-> exp]

\* A carry out of the significand: 2^53 is 2^52 with the exponent one up.
F64Pack(mant, e, neg) ==
    IF mant = BigTimesPow2(<<1>>, MantissaBits)
    THEN F64Finite(BigTimesPow2(<<1>>, MantissaBits - 1), e + 1 - (MantissaBits - 1), neg)
    ELSE F64Finite(mant, e - (MantissaBits - 1), neg)

\* Round to nearest, ties to even: twice the remainder against the divisor.
RoundsUp(mant, twice, d) == BigLess(d, twice) \/ (twice = d /\ Head(mant) % 2 = 1)

F64Nearest(t, d, e, neg) ==
    IF RoundsUp(t.mant, BigDouble(t.rem), d)
    THEN F64Pack(BigAddC(t.mant, <<>>, 1), e, neg)
    ELSE F64Pack(t.mant, e, neg)

\* The leading digit of the significand is 1; the other 52 follow.
F64FromUnit(u, neg) ==
    F64Nearest(TakeBits(BigSub(u.n, u.d), u.d, <<1>>, (MantissaBits - 1) \div 4),
               u.d, u.e, neg)

\* The double nearest to num/den (den > 0), ties to even: IEEE 754
\* round-to-nearest, which both str::parse::<f64> and the f64 division give.
\* Values outside the normal range are not in the model's inputs.
F64Round(num, den, neg) ==
    IF num = <<>> THEN F64Zero(neg) ELSE F64FromUnit(ScaleToUnit(num, den, 0), neg)

\* x.map(|s| s / k) for a small whole number k (`s / 1000.0`); None, here
\* F64Err, stays None.
F64DivSmall(x, k) ==
    IF x.cls # "fin" THEN x
    ELSE F64Round(BigTimesPow2(x.mant, x.exp),
                  BigTimesPow2(BigMulSmallC(<<1>>, k, 0), 0 - x.exp), x.neg)

IsDecDigit(ch) == ch \in {"0", "1", "2", "3", "4", "5", "6", "7", "8", "9"}

\* The longest prefix of decimal digits.
RECURSIVE DigitPrefix(_)
DigitPrefix(str) ==
    IF str # <<>> /\ IsDecDigit(Head(str)) THEN <<Head(str)>> \o DigitPrefix(Tail(str))
    ELSE <<>>

AsciiLower(ch) ==
    CASE ch = "I" -> "i" [] ch = "N" -> "n" [] ch = "F" -> "f" [] ch = "A" -> "a"
      [] ch = "T" -> "t" [] ch = "Y" -> "y" [] ch = "E" -> "e" [] OTHER -> ch

Lowered(str) == [i \in 1..Len(str) |-> AsciiLower(str[i])]

\* The double written by the digits ds times 10^x.
F64Decimal(ds, x, neg) ==
    F64Round(BigTimesPow10(BigNorm(BigOfDigits(ds, <<>>)), x),
             BigTimesPow10(<<1>>, 0 - x), neg)

\* The digits of the exponent: at least one, and nothing after them.
ParseExpDigits(ip, fp, ed, eneg, neg) ==
    IF ed = <<>> \/ DigitPrefix(ed) # ed THEN F64Err
    ELSE F64Decimal(ip \o fp,
                    (IF eneg THEN 0 - DigitsValue(ed, 10, 0) ELSE DigitsValue(ed, 10, 0))
                        - Len(fp),
                    neg)

\* After "e": an optional sign.
ParseExpSign(ip, fp, r, neg) ==
    IF r # <<>> /\ Head(r) \in {"+", "-"}
    THEN ParseExpDigits(ip, fp, Tail(r), Head(r) = "-", neg)
    ELSE ParseExpDigits(ip, fp, r, FALSE, neg)

\* After the digits: the end of the string, or an exponent.
ParseExponent(ip, fp, after, neg) ==
    IF Len(ip) + Len(fp) = 0 THEN F64Err
    ELSE IF after = <<>> THEN F64Decimal(ip \o fp, 0 - Len(fp), neg)
    ELSE IF Head(after) \in {"e", "E"} THEN ParseExpSign(ip, fp, Tail(after), neg)
    ELSE F64Err

\* After ".": the digits of the fraction.
ParseFraction(ip, r, neg) == ParseExponent(ip, DigitPrefix(r), Drop(r, Len(DigitPrefix(r))), neg)

\* After the digits of the whole part: an optional ".".
ParsePoint(ip, r, neg) ==
    IF r # <<>> /\ Head(r) = "." THEN ParseFraction(ip, Tail(r), neg)
    ELSE ParseExponent(ip, <<>>, r, neg)

\* After the sign.
ParseUnsigned(body, neg) ==
    IF Lowered(body) \in {<<"i", "n", "f">>, <<"i", "n", "f", "i", "n", "i", "t", "y">>}
    THEN F64Inf(neg)
    ELSE IF Lowered(body) = <<"n", "a", "n">> THEN F64Nan
    ELSE ParsePoint(DigitPrefix(body), Drop(body, Len(DigitPrefix(body))), neg)

\* str::parse::<f64> (core::num::dec2flt): an optional sign, then "inf",
\* "infinity" or "nan" in any case, or digits with an optional "." and an
\* optional exponent, at least one digit before the exponent.  F64Err when the
\* string is not of that form.  The model's inputs keep to exponents of a few
\* digits and to values in the normal range.
ParseF64(str) ==
    IF str # <<>> /\ Head(str) \in {"+", "-"}
    THEN ParseUnsigned(Tail(str), Head(str) = "-")
    ELSE ParseUnsigned(str, FALSE)

----------------------------------------------------------------------------
(* The document and the quick_xml Reader.  The document is the sequence of   *)
(* markup pieces the reader splits the input into: start tags, end tags,     *)
(* empty-element tags, character data, CDATA sections, and markup the reader *)
(* cannot read.                                                              *)

St(name, attrs) == [kind |-> "Start", name |-> name, attrs |-> attrs, data |-> <<>>]
En(name) == [kind |-> "End", name |-> name, attrs |-> <<>>, data |-> <<>>]
Em(name) == [kind |-> "Empty", name |-> name, attrs |-> <<>>, data |-> <<>>]
Tx(data) == [kind |-> "Text", name |-> "", attrs |-> <<>>, data |-> data]
Cd(data) == [kind |-> "CData", name |-> "", attrs |-> <<>>, data |-> data]
Bad == [kind |-> "Bad", name |-> "", attrs |-> <<>>, data |-> <<>>]

EofEvent == [kind |-> "Eof", name |-> "", attrs |-> <<>>, data |-> <<>>]
ErrEvent == [kind |-> "Err", name |-> "", attrs |-> <<>>, data |-> <<>>]

\* Reader::from_str(xml)
NewReader == [pos |-> 1, opened |-> <<>>]

\* With trim_text(true) character data is trimmed and, when nothing is left
\* of it, gives no event: the position of the next piece that gives one.
RECURSIVE SkipBlank(_, _)
SkipBlank(doc, pos) ==
    IF pos <= Len(doc) /\ doc[pos].kind = "Text" /\ XmlTrim(doc[pos].data) = <<>>
    THEN SkipBlank(doc, pos + 1)
    ELSE pos

\* Reader::read_event_into: the next event and the reader after it.  An end
\* tag that does not close the innermost open element is an error (the
\* reader checks end names); the end of the input is Eof, whatever is open.
ReadEvent(doc, rd) ==
    LET pos == SkipBlank(doc, rd.pos)
        tok == doc[pos]
        depth == Len(rd.opened)
    IN  IF pos > Len(doc) THEN [ev |-> EofEvent, reader |-> [rd EXCEPT !.pos = pos]]
        ELSE CASE tok.kind = "Start" ->
                    [ev |-> tok,
                     reader |-> [pos |-> pos + 1, opened |-> Append(rd.opened, tok.name)]]
               [] tok.kind = "End" ->
                    IF depth > 0 /\ rd.opened[depth] = tok.name
                    THEN [ev |-> tok,
                          reader |-> [pos |-> pos + 1,
                                      opened |-> SubSeq(rd.opened, 1, depth - 1)]]
                    ELSE [ev |-> ErrEvent, reader |-> [rd EXCEPT !.pos = pos + 1]]
               [] tok.kind = "Empty" ->
                    [ev |-> tok, reader |-> [rd EXCEPT !.pos = pos + 1]]
               [] tok.kind = "Text" ->
                    [ev |-> Tx(XmlTrim(tok.data)), reader |-> [rd EXCEPT !.pos = pos + 1]]
               [] tok.kind = "CData" ->
                    [ev |-> tok, reader |-> [rd EXCEPT !.pos = pos + 1]]
               [] OTHER ->
                    [ev |-> ErrEvent, reader |-> [rd EXCEPT !.pos = pos + 1]]

\* The character of an XML reference name, "" when unescape rejects it: the
\* five predefined entities and the numeric references to a character.
XmlEntity(name) ==
    CASE name = <<"l", "t">> -> "<"
      [] name = <<"g", "t">> -> ">"
      [] name = <<"a", "m", "p">> -> "&"
      [] name = <<"a", "p", "o", "s">> -> "'"
      [] name = <<"q", "u", "o", "t">> -> "\""
      [] OTHER ->
            IF StartsWith(name, <<"#", "x">>)
            THEN LET num == ParseU32(Drop(name, 2), 16)
                 IN  IF IsChar(num) /\ num # 0 THEN CharOf(num) ELSE ""
            ELSE IF StartsWith(name, <<"#">>)
            THEN LET num == ParseU32(Drop(name, 1), 10)
                 IN  IF IsChar(num) /\ num # 0 THEN CharOf(num) ELSE ""
            ELSE ""

UnescapeErr == [ok |-> FALSE, str |-> <<>>]

\* BytesText::unescape: [ok, str], the data with its XML references replaced,
\* or an error for an "&" with no ";" after it or a reference unescape rejects.
RECURSIVE XmlUnescape(_)
XmlUnescape(data) ==
    IF data = <<>> THEN [ok |-> TRUE, str |-> <<>>]
    ELSE IF Head(data) # "&"
    THEN LET rest == XmlUnescape(Tail(data))
         IN  IF rest.ok THEN [ok |-> TRUE, str |-> <<Head(data)>> \o rest.str]
             ELSE UnescapeErr
    ELSE IF ~InSeq(Tail(data), ";") THEN UnescapeErr
    ELSE LET e == TakeEntity(Tail(data), <<>>)
             ch == XmlEntity(e.entity)
             rest == XmlUnescape(e.rest)
         IN  IF ch # "" /\ rest.ok THEN [ok |-> TRUE, str |-> <<ch>> \o rest.str]
             ELSE UnescapeErr

----------------------------------------------------------------------------
(* TranscriptParser *)

\* TranscriptParser::new
NewParser(preserve_formatting) == [_preserve_formatting |-> preserve_formatting]

Attr(key, value) == [key |-> key, value |-> value]

\* e.attributes().find(|a| key matches): the index of the first attribute
\* with the key, 0 for None.
FindAttr(attrs, key) ==
    IF \E i \in 1..Len(attrs) : attrs[i].key = key
    THEN CHOOSE i \in 1..Len(attrs) :
            /\ attrs[i].key = key
            /\ \A j \in 1..(i - 1) : attrs[j].key # key
    ELSE 0

\* .and_then(|a| ... s.parse::<f64>().ok()): the value of the attribute found,
\* parsed; F64Err is None.
ParseAttr(attrs, i) == IF i = 0 THEN F64Err ELSE ParseF64(attrs[i].value)

\* As UnwrapOrZero, the default forgotten: None is passed on.
UnwrapOrSelf(v) == v

\* .unwrap_or(0.0)
UnwrapOrZero(v) == IF v.cls = "err" THEN F64Zero(FALSE) ELSE v

\* The start / dur attribute of a text element: decimal seconds, 0.0 when
\* absent or unparsable.
TextTiming(attrs, key) == UnwrapOrZero(ParseAttr(attrs, FindAttr(attrs, key)))

\* As PTiming, the division by 1000.0 forgotten.
PTimingMs(attrs, key) == UnwrapOrZero(ParseAttr(attrs, FindAttr(attrs, key)))

\* The t / d attribute of a p element: milliseconds, divided by 1000.0; 0.0
\* when absent or unparsable.
PTiming(attrs, key) ==
    UnwrapOrZero(F64DivSmall(ParseAttr(attrs, FindAttr(attrs, key)), 1000))

\* Result<Vec<TranscriptItem>, String>, and None while parse runs.
None == [tag |-> "None", items |-> <<>>, msg |-> ""]
Ok(v) == [tag |-> "Ok", items |-> v, msg |-> ""]
Err(msg) == [tag |-> "Err", items |-> <<>>, msg |-> msg]

TranscriptItem(txt, st, dur) == [text |-> txt, start |-> st, duration |-> dur]

\* A frame is the state of one call of parse:
\* [reader, pc, items, text, start, duration, result].
NewFrame ==
    [reader |-> NewReader, pc |-> "parse", items |-> <<>>, text |-> <<>>,
     start |-> F64Zero(FALSE), duration |-> F64Zero(FALSE), result |-> None]

\* parse returns res.
Return(f, res) == [f EXCEPT !.pc = "done", !.result = res]

\* The match of parse on the event read, the frame holding the reader after it.
ParseMatch(self, ev, f) ==
    CASE ev.kind = "Start" /\ ev.name = "text" ->
            [f EXCEPT !.pc = "text", !.text = <<>>,
                      !.start = TextTiming(ev.attrs, "start"),
                      !.duration = TextTiming(ev.attrs, "dur")]
      [] ev.kind = "Start" /\ ev.name = "p" ->
            [f EXCEPT !.pc = "p", !.text = <<>>,
                      !.start = PTiming(ev.attrs, "t"),
                      !.duration = PTiming(ev.attrs, "d")]
      [] ev.kind = "Eof" -> Return(f, Ok(f.items))
      [] ev.kind = "Err" -> Return(f, Err("XML parse error"))
      [] OTHER -> f

\* One iteration of the loop of parse.
ParseLoop(self, doc, f) ==
    ParseMatch(self, ReadEvent(doc, f.reader).ev,
               [f EXCEPT !.reader = ReadEvent(doc, f.reader).reader])

PushUnescaped(f, u) ==
    IF ~u.ok THEN Return(f, Err("Failed to unescape"))
    ELSE [f EXCEPT !.text = f.text \o DecodeHtmlEntities(u.str)]

\* Ok(Event::Text(e)) in an element: the data is unescaped, decoded and
\* appended to text; a failed unescape returns from parse.
PushText(f, data) == PushUnescaped(f, XmlUnescape(data))

\* As FinishElement, the test for an empty text forgotten.
FinishElementKeepBlank(f) ==
    [f EXCEPT !.pc = "parse",
              !.items = Append(f.items, TranscriptItem(Trim(f.text), f.start, f.duration))]

\* After the loop of an element: Ok(None) for a text that trims to nothing,
\* else the item, which parse pushes onto items.
FinishElement(f) ==
    IF Trim(f.text) = <<>> THEN [f EXCEPT !.pc = "parse"]
    ELSE [f EXCEPT !.pc = "parse",
                   !.items = Append(f.items, TranscriptItem(Trim(f.text), f.start, f.duration))]

\* As TextMatch, with a parser that preserves formatting keeping the text of
\* a text element untrimmed.
TextMatchPreserve(self, ev, f) ==
    CASE ev.kind = "Text" -> PushText(f, ev.data)
      [] ev.kind = "End" /\ ev.name = "text" ->
            IF self._preserve_formatting /\ Trim(f.text) # <<>>
            THEN [f EXCEPT !.pc = "parse",
                           !.items = Append(f.items,
                                            TranscriptItem(f.text, f.start, f.duration))]
            ELSE FinishElement(f)
      [] ev.kind = "Eof" -> Return(f, Err("Unexpected EOF in text element"))
      [] ev.kind = "Err" -> Return(f, Err("XML parse error"))
      [] OTHER -> f

\* As TextMatch, the end of the input falling to `_ => {}`.
TextMatchPastEof(self, ev, f) ==
    CASE ev.kind = "Text" -> PushText(f, ev.data)
      [] ev.kind = "End" /\ ev.name = "text" -> FinishElement(f)
      [] ev.kind = "Err" -> Return(f, Err("XML parse error"))
      [] OTHER -> f

\* The match of parse_text_element on the event read.
TextMatch(self, ev, f) ==
    CASE ev.kind = "Text" -> PushText(f, ev.data)
      [] ev.kind = "End" /\ ev.name = "text" -> FinishElement(f)
      [] ev.kind = "Eof" -> Return(f, Err("Unexpected EOF in text element"))
      [] ev.kind = "Err" -> Return(f, Err("XML parse error"))
      [] OTHER -> f

\* One iteration of the loop of parse_text_element.
ParseTextElementLoop(self, doc, f) ==
    TextMatch(self, ReadEvent(doc, f.reader).ev,
              [f EXCEPT !.reader = ReadEvent(doc, f.reader).reader])

\* Ok(Event::Start(e)) in a p element: an s or br start tag pushes one space
\* unless the text ends with one.
PushMarker(f, name) ==
    IF name \in {"s", "br"} /\ (f.text = <<>> \/ f.text[Len(f.text)] # " ")
    THEN [f EXCEPT !.text = Append(f.text, " ")]
    ELSE f

\* The match of parse_p_element on the event read.
PMatch(self, ev, f) ==
    CASE ev.kind = "Text" -> PushText(f, ev.data)
      [] ev.kind = "Start" -> PushMarker(f, ev.name)
      [] ev.kind = "End" /\ ev.name = "p" -> FinishElement(f)
      [] ev.kind = "Eof" -> Return(f, Err("Unexpected EOF in p element"))
      [] ev.kind = "Err" -> Return(f, Err("XML parse error"))
      [] OTHER -> f

\* One iteration of the loop of parse_p_element.
ParsePElementLoop(self, doc, f) ==
    PMatch(self, ReadEvent(doc, f.reader).ev,
           [f EXCEPT !.reader = ReadEvent(doc, f.reader).reader])

\* The next step of a call of parse, by where the call is.
ParseStep(self, doc, f) ==
    CASE f.pc = "parse" -> ParseLoop(self, doc, f)
      [] f.pc = "text" -> ParseTextElementLoop(self, doc, f)
      [] f.pc = "p" -> ParsePElementLoop(self, doc, f)
      [] OTHER -> f

RECURSIVE RunFrame(_, _, _)
RunFrame(self, doc, f) ==
    IF f.pc = "done" THEN f ELSE RunFrame(self, doc, ParseStep(self, doc, f))

\* TranscriptParser::parse as a function of the parser and the document: what
\* the call returns.
Parse(self, doc) == RunFrame(self, doc, NewFrame).result

----------------------------------------------------------------------------
(* One call of parse, an iteration of a loop a step. *)

\* What reader.read_event_into returns next.
Event == ReadEvent(xml, frame.reader).ev

ParseIdle ==
    /\ parser = NewParser(FALSE)
    /\ xml = <<>>
    /\ frame = [NewFrame EXCEPT !.pc = "idle"]

DecodeIdle ==
    /\ s = <<>>
    /\ chars = <<>>
    /\ dresult = <<>>
    /\ dpc = "idle"

RunIdle == run = [pc |-> "idle"]

LibIdle ==
    /\ traverser = [pc |-> "idle"]
    /\ query = [pc |-> "idle"]

(* the loop of parse *)

ParseStartText ==
    /\ frame.pc = "parse"
    /\ Event.kind = "Start" /\ Event.name = "text"
    /\ frame' = ParseLoop(parser, xml, frame)
    /\ UNCHANGED <<parser, xml>>
    /\ UNCHANGED <<decodeVars, runVars, libVars>>

ParseStartP ==
    /\ frame.pc = "parse"
    /\ Event.kind = "Start" /\ Event.name = "p"
    /\ frame' = ParseLoop(parser, xml, frame)
    /\ UNCHANGED <<parser, xml>>
    /\ UNCHANGED <<decodeVars, runVars, libVars>>

ParseStartOther ==
    /\ frame.pc = "parse"
    /\ Event.kind = "Start" /\ Event.name \notin {"text", "p"}
    /\ frame' = ParseLoop(parser, xml, frame)
    /\ UNCHANGED <<parser, xml>>
    /\ UNCHANGED <<decodeVars, runVars, libVars>>

ParseEof ==
    /\ frame.pc = "parse"
    /\ Event.kind = "Eof"
    /\ frame' = ParseLoop(parser, xml, frame)
    /\ UNCHANGED <<parser, xml>>
    /\ UNCHANGED <<decodeVars, runVars, libVars>>

ParseErr ==
    /\ frame.pc = "parse"
    /\ Event.kind = "Err"
    /\ frame' = ParseLoop(parser, xml, frame)
    /\ UNCHANGED <<parser, xml>>
    /\ UNCHANGED <<decodeVars, runVars, libVars>>

ParseOther ==
    /\ frame.pc = "parse"
    /\ Event.kind \in {"End", "Empty", "Text", "CData"}
    /\ frame' = ParseLoop(parser, xml, frame)
    /\ UNCHANGED <<parser, xml>>
    /\ UNCHANGED <<decodeVars, runVars, libVars>>

(* the loop of parse_text_element *)

TextData ==
    /\ frame.pc = "text"
    /\ Event.kind = "Text" /\ XmlUnescape(Event.data).ok
    /\ frame' = ParseTextElementLoop(parser, xml, frame)
    /\ UNCHANGED <<parser, xml>>
    /\ UNCHANGED <<decodeVars, runVars, libVars>>

TextUnescapeErr ==
    /\ frame.pc = "text"
    /\ Event.kind = "Text" /\ ~XmlUnescape(Event.data).ok
    /\ frame' = ParseTextElementLoop(parser, xml, frame)
    /\ UNCHANGED <<parser, xml>>
    /\ UNCHANGED <<decodeVars, runVars, libVars>>

TextEnd ==
    /\ frame.pc = "text"
    /\ Event.kind = "End" /\ Event.name = "text"
    /\ frame' = ParseTextElementLoop(parser, xml, frame)
    /\ UNCHANGED <<parser, xml>>
    /\ UNCHANGED <<decodeVars, runVars, libVars>>

TextEof ==
    /\ frame.pc = "text"
    /\ Event.kind = "Eof"
    /\ frame' = ParseTextElementLoop(parser, xml, frame)
    /\ UNCHANGED <<parser, xml>>
    /\ UNCHANGED <<decodeVars, runVars, libVars>>

TextErr ==
    /\ frame.pc = "text"
    /\ Event.kind = "Err"
    /\ frame' = ParseTextElementLoop(parser, xml, frame)
    /\ UNCHANGED <<parser, xml>>
    /\ UNCHANGED <<decodeVars, runVars, libVars>>

TextOther ==
    /\ frame.pc = "text"
    /\ \/ Event.kind \in {"Start", "Empty", "CData"}
       \/ Event.kind = "End" /\ Event.name # "text"
    /\ frame' = ParseTextElementLoop(parser, xml, frame)
    /\ UNCHANGED <<parser, xml>>
    /\ UNCHANGED <<decodeVars, runVars, libVars>>

(* the loop of parse_p_element *)

PData ==
    /\ frame.pc = "p"
    /\ Event.kind = "Text" /\ XmlUnescape(Event.data).ok
    /\ frame' = ParsePElementLoop(parser, xml, frame)
    /\ UNCHANGED <<parser, xml>>
    /\ UNCHANGED <<decodeVars, runVars, libVars>>

PUnescapeErr ==
    /\ frame.pc = "p"
    /\ Event.kind = "Text" /\ ~XmlUnescape(Event.data).ok
    /\ frame' = ParsePElementLoop(parser, xml, frame)
    /\ UNCHANGED <<parser, xml>>
    /\ UNCHANGED <<decodeVars, runVars, libVars>>

PStartMarker ==
    /\ frame.pc = "p"
    /\ Event.kind = "Start" /\ Event.name \in {"s", "br"}
    /\ frame' = ParsePElementLoop(parser, xml, frame)
    /\ UNCHANGED <<parser, xml>>
    /\ UNCHANGED <<decodeVars, runVars, libVars>>

PStartOther ==
    /\ frame.pc = "p"
    /\ Event.kind = "Start" /\ Event.name \notin {"s", "br"}
    /\ frame' = ParsePElementLoop(parser, xml, frame)
    /\ UNCHANGED <<parser, xml>>
    /\ UNCHANGED <<decodeVars, runVars, libVars>>

PEnd ==
    /\ frame.pc = "p"
    /\ Event.kind = "End" /\ Event.name = "p"
    /\ frame' = ParsePElementLoop(parser, xml, frame)
    /\ UNCHANGED <<parser, xml>>
    /\ UNCHANGED <<decodeVars, runVars, libVars>>

PEof ==
    /\ frame.pc = "p"
    /\ Event.kind = "Eof"
    /\ frame' = ParsePElementLoop(parser, xml, frame)
    /\ UNCHANGED <<parser, xml>>
    /\ UNCHANGED <<decodeVars, runVars, libVars>>

PErr ==
    /\ frame.pc = "p"
    /\ Event.kind = "Err"
    /\ frame' = ParsePElementLoop(parser, xml, frame)
    /\ UNCHANGED <<parser, xml>>
    /\ UNCHANGED <<decodeVars, runVars, libVars>>

POther ==
    /\ frame.pc = "p"
    /\ \/ Event.kind \in {"Empty", "CData"}
       \/ Event.kind = "End" /\ Event.name # "p"
    /\ frame' = ParsePElementLoop(parser, xml, frame)
    /\ UNCHANGED <<parser, xml>>
    /\ UNCHANGED <<decodeVars, runVars, libVars>>

Next ==
    \/ ParseStartText \/ ParseStartP \/ ParseStartOther
    \/ ParseEof \/ ParseErr \/ ParseOther
    \/ TextData \/ TextUnescapeErr \/ TextEnd \/ TextEof \/ TextErr \/ TextOther
    \/ PData \/ PUnescapeErr \/ PStartMarker \/ PStartOther
    \/ PEnd \/ PEof \/ PErr \/ POther

(* the documents *)

MaxCues == 2
MaxBody == 2
MaxMsDigits == 2

Hi == <<"H", "i">>
Blank == <<" ">>
\* "Hello &amp; world", as test_parse_with_html_entities writes it
HelloAmpWorld ==
    <<"H", "e", "l", "l", "o", " ", "&", "a", "m", "p", ";", " ",
      "w", "o", "r", "l", "d">>
\* "&amp;#160;": a doubly escaped U+00A0
AmpNum160 == <<"&", "a", "m", "p", ";", "#", "1", "6", "0", ";">>
\* "&amp;lt;": a doubly escaped "<"
AmpLt == <<"&", "a", "m", "p", ";", "l", "t", ";">>
\* "&amp;nbsp;": a doubly escaped no-break space
AmpNbsp == <<"&", "a", "m", "p", ";", "n", "b", "s", "p", ";">>
\* "a&amp;nbsp;"
AAmpNbsp == <<"a">> \o AmpNbsp
\* "&nbsp;": not an XML entity
Nbsp == <<"&", "n", "b", "s", "p", ";">>

Sec25 == <<"2", ".", "5">>
Sec30 == <<"3", ".", "0">>
Sec00 == <<"0", ".", "0">>
Ms2500 == <<"2", "5", "0", "0">>
Ms3000 == <<"3", "0", "0", "0">>
Ms7000 == <<"7", "0", "0", "0">>

\* Whole cue elements, as the tests of the parser write them.
SimpleCues ==
    { <<St("text", <<Attr("start", Sec25), Attr("dur", Sec30)>>), Tx(Hi), En("text")>>,
      <<St("text", <<Attr("start", Sec00), Attr("dur", Sec25)>>), Tx(AmpLt), En("text")>>,
      <<St("p", <<Attr("t", Ms2500), Attr("d", Ms3000)>>), Tx(Hi), En("p")>>,
      <<St("p", <<Attr("t", <<"0">>), Attr("d", Ms2500)>>),
        St("s", <<>>), Tx(<<"a">>), En("s"), St("s", <<>>), Tx(<<"b">>), En("s"), En("p")>>,
      <<St("p", <<Attr("t", Ms7000)>>), Tx(AmpNum160), En("p")>> }

\* A sequence of cues, bare or inside <transcript>, complete or cut short:
\* the last end tag missing, </transcript> missing.
CueDocs ==
    { pre \o SubSeq(body, 1, Len(body) - cut) \o post :
        pre \in {<<>>, <<St("transcript", <<>>)>>},
        body \in { Flatten(cs) : cs \in SeqsUpTo(SimpleCues, MaxCues) },
        cut \in {0, 1},
        post \in {<<>>, <<En("transcript")>>} }

BodyTokens ==
    { Tx(Hi), Tx(HelloAmpWorld), Tx(AmpLt), Tx(AAmpNbsp), Tx(Nbsp), Cd(Hi),
      St("s", <<>>), En("s"), Em("br"), Bad }

\* One cue element with any content, closed or not.
BodyDocs ==
    { <<St(k, <<>>)>> \o body \o SubSeq(<<En(k)>>, 1, closed) :
        k \in {"text", "p"},
        body \in SeqsUpTo(BodyTokens, MaxBody),
        closed \in {0, 1} }

\* A cue element inside a cue element.
NestedDocs ==
    { <<St(k1, <<>>)>> \o b1 \o <<St(k2, <<>>)>> \o b2 \o <<En(k2)>> \o b3 \o <<En(k1)>> :
        k1 \in {"text", "p"}, k2 \in {"text", "p"},
        b1 \in {<<>>, <<Tx(Hi)>>}, b2 \in {<<>>, <<Tx(<<"a">>)>>},
        b3 \in {<<>>, <<Tx(<<"b">>)>>, <<Tx(Blank)>>} }

\* Milliseconds as t and d give them: digit strings.
MsDigits == {"0", "1", "5", "9"}
MsValues ==
    (SeqsUpTo(MsDigits, MaxMsDigits) \ {<<>>})
    \cup { Ms2500, Ms3000, <<"1", "2", "3", "4", "5", "6", "7">>,
           \* 2^53 - 1, 2^53 + 1 and 2^53 + 3
           <<"9", "0", "0", "7", "1", "9", "9", "2", "5", "4", "7", "4", "0", "9", "9", "1">>,
           <<"9", "0", "0", "7", "1", "9", "9", "2", "5", "4", "7", "4", "0", "9", "9", "3">>,
           <<"9", "0", "0", "7", "1", "9", "9", "2", "5", "4", "7", "4", "0", "9", "9", "5">> }

\* The decimal seconds of a digit string of milliseconds: "2500" is "2.500",
\* "5" is "0.005".
SecOfMs(ds) ==
    LET n == Len(ds)
    IN  IF n <= 3
        THEN <<"0", ".">> \o [i \in 1..(3 - n) |-> "0"] \o ds
        ELSE SubSeq(ds, 1, n - 3) \o <<".">> \o SubSeq(ds, n - 2, n)

\* Attribute values that are no number.
JunkValues ==
    { <<>>, <<"a", "b", "c">>, <<" ", "2">>, <<"2", ",", "5">>, <<"1", "e">>, <<".">>,
      <<"+">>, <<"2", ".", "5", "s">>, <<"0", "x", "1", "0">> }

\* Attribute values that are a number, besides the digit strings.
NumberValues ==
    { Sec25, Sec30, <<".", "5">>, <<"5", ".">>, <<"1", "e", "3">>, <<"-", "1">>,
      <<"+", "2">>, <<"2", ".", "5", "E", "-", "1">> }

\* Attribute values str::parse::<f64> takes that are no finite number.
SpecialValues == { <<"i", "n", "f">>, <<"-", "I", "n", "f", "i", "n", "i", "t", "y">>,
                   <<"N", "a", "N">> }

OtherValues == {Sec30, Ms3000, <<"a", "b", "c">>}

\* The attribute lists of a cue whose keys are k1 and k2: each value with a
\* few values of the other attribute, with the other attribute absent, after
\* an attribute of another name, and in the other order.
TimingAttrs(k1, k2, values) ==
    { <<Attr(k1, v), Attr(k2, w)>> : v \in values, w \in OtherValues }
    \cup { <<Attr(k1, w), Attr(k2, v)>> : v \in values, w \in OtherValues }
    \cup { <<Attr(k1, v)>> : v \in values }
    \cup { <<Attr(k2, v)>> : v \in values }
    \cup { <<Attr(k2, w), Attr("x", Sec25), Attr(k1, v)>> : v \in JunkValues, w \in OtherValues }
    \cup { <<>> }

\* One cue element with any timing attributes.
TimingDocs ==
    { <<St("text", a), Tx(Hi), En("text")>> :
        a \in TimingAttrs("start", "dur",
                          JunkValues \cup NumberValues \cup SpecialValues
                              \cup { SecOfMs(m) : m \in MsValues }) }
    \cup { <<St("p", a), Tx(Hi), En("p")>> :
        a \in TimingAttrs("t", "d",
                          JunkValues \cup NumberValues \cup SpecialValues \cup MsValues) }

Documents == CueDocs \cup BodyDocs \cup NestedDocs \cup TimingDocs

Init ==
    /\ parser \in { NewParser(b) : b \in BOOLEAN }
    /\ xml \in Documents
    /\ frame = NewFrame
    /\ DecodeIdle
    /\ RunIdle
    /\ LibIdle

Spec == Init /\ [][Next]_vars

----------------------------------------------------------------------------
(* decode_html_entities as a state machine over bounded inputs *)

MaxPieces == 4

DecodePieces ==
    { <<"a">>, <<" ">>, <<"&">>, <<";">>,
      <<"a", "m", "p">>, <<"l", "t">>, <<"z", "z">>,
      <<"#", "6", "5">>, <<"#", "x", "4", "1">>, <<"#", "+", "6", "5">> }

DecodeEntities ==
    { <<"&", "q", "u", "o", "t", ";">>, <<"&", "a", "m", "p", ";">>,
      <<"&", "a", "p", "o", "s", ";">>, <<"&", "l", "t", ";">>,
      <<"&", "g", "t", ";">>, <<"&", "n", "b", "s", "p", ";">>,
      <<"&", "#", "6", "5", ";">>, <<"&", "#", "9", "7", ";">>,
      <<"&", "#", "x", "4", "1", ";">>, <<"&", "#", "X", "6", "1", ";">>,
      <<"&", "#", "x", "3", "B", ";">>, <<"&", "#", "3", "8", ";">>,
      <<"&", "#", "x", "2", "0", "A", "C", ";">>,
      <<"&", "u", "n", "k", "n", "o", "w", "n", ";">>, <<"&", ";">>,
      <<"&", "#", ";">>, <<"&", "#", "x", ";">>, <<"&", "#", "6", "a", ";">>,
      <<"&", "#", "x", "4", "g", ";">>, <<"&", "#", "-", "6", "5", ";">>,
      <<"&", "#", "x", "D", "8", "0", "0", ";">>,
      <<"&", "#", "1", "1", "1", "4", "1", "1", "2", ";">>,
      <<"&", "#", "9", "9", "9", "9", "9", "9", "9", "9", "9", "9", "9", ";">>,
      <<"&", "#", "x", "+", "4", "1", ";">>, <<"&", "A", "M", "P", ";">>,
      <<"&", "#", " ", "6", "5", ";">> }

DecodeContexts == { <<>>, <<"a">>, <<" ">>, <<"&">>, <<";">>, <<"a", " ">> }

DecodeInputs ==
    { Flatten(ps) : ps \in SeqsUpTo(DecodePieces, MaxPieces) }
    \cup { pre \o e \o post :
             pre \in DecodeContexts, e \in DecodeEntities, post \in DecodeContexts }

InitDecode ==
    /\ s \in DecodeInputs
    /\ chars = s
    /\ dresult = <<>>
    /\ dpc = "loop"
    /\ ParseIdle
    /\ RunIdle
    /\ LibIdle

\* ch == '&': the entity is collected and decoded.
DecodeAmp ==
    /\ dpc = "loop"
    /\ chars # <<>>
    /\ Head(chars) = "&"
    /\ LET d == DecodeIteration([chars |-> chars, result |-> dresult])
       IN  chars' = d.chars /\ dresult' = d.result
    /\ UNCHANGED <<s, dpc>>
    /\ UNCHANGED <<parseVars, runVars, libVars>>

\* any other character is pushed.
DecodeChar ==
    /\ dpc = "loop"
    /\ chars # <<>>
    /\ Head(chars) # "&"
    /\ LET d == DecodeIteration([chars |-> chars, result |-> dresult])
       IN  chars' = d.chars /\ dresult' = d.result
    /\ UNCHANGED <<s, dpc>>
    /\ UNCHANGED <<parseVars, runVars, libVars>>

\* chars.next() is None: the function returns result.
DecodeReturn ==
    /\ dpc = "loop"
    /\ chars = <<>>
    /\ dpc' = "done"
    /\ UNCHANGED <<s, chars, dresult>>
    /\ UNCHANGED <<parseVars, runVars, libVars>>

NextDecode == DecodeAmp \/ DecodeChar \/ DecodeReturn

SpecDecode == InitDecode /\ [][NextDecode]_vars

----------------------------------------------------------------------------
(* What the documents say, read off the document itself *)

Done == frame.pc = "done"

\* Balanced tags with matching names, nothing the reader cannot read, and
\* character data whose references XML knows.
RECURSIVE Balanced(_, _, _)
Balanced(doc, i, opened) ==
    IF i > Len(doc) THEN opened = <<>>
    ELSE CASE doc[i].kind = "Start" ->
                Balanced(doc, i + 1, Append(opened, doc[i].name))
           [] doc[i].kind = "End" ->
                /\ opened # <<>>
                /\ opened[Len(opened)] = doc[i].name
                /\ Balanced(doc, i + 1, SubSeq(opened, 1, Len(opened) - 1))
           [] doc[i].kind = "Text" ->
                XmlUnescape(doc[i].data).ok /\ Balanced(doc, i + 1, opened)
           [] doc[i].kind = "Bad" -> FALSE
           [] OTHER -> Balanced(doc, i + 1, opened)

\* The position of the end tag of the element whose start tag is before
\* position i, depth elements being open inside it; 0 when there is none.
RECURSIVE MatchEnd(_, _, _)
MatchEnd(doc, i, depth) ==
    IF i > Len(doc) THEN 0
    ELSE IF doc[i].kind = "Start" THEN MatchEnd(doc, i + 1, depth + 1)
    ELSE IF doc[i].kind = "End"
    THEN IF depth = 0 THEN i ELSE MatchEnd(doc, i + 1, depth - 1)
    ELSE MatchEnd(doc, i + 1, depth)

\* A well-formed document: one root element, balanced.
WellFormed(doc) ==
    /\ doc # <<>>
    /\ doc[1].kind = "Start"
    /\ MatchEnd(doc, 2, 0) = Len(doc)
    /\ Balanced(doc, 1, <<>>)

\* The cue elements of a well-formed document that are inside no cue element,
\* in document order, each from its start tag to its end tag.
RECURSIVE TopLevelCues(_, _)
TopLevelCues(doc, i) ==
    IF i > Len(doc) THEN <<>>
    ELSE IF doc[i].kind = "Start" /\ doc[i].name \in {"text", "p"}
    THEN <<SubSeq(doc, i, MatchEnd(doc, i + 1, 0))>>
             \o TopLevelCues(doc, MatchEnd(doc, i + 1, 0) + 1)
    ELSE TopLevelCues(doc, i + 1)

\* The decoded text of the pieces of an element.
RECURSIVE CueText(_)
CueText(cue) ==
    IF cue = <<>> THEN <<>>
    ELSE (CASE Head(cue).kind = "Text" ->
                 DecodeHtmlEntities(XmlUnescape(Head(cue).data).str)
            [] Head(cue).kind = "CData" -> Head(cue).data
            [] OTHER -> <<>>)
         \o CueText(Tail(cue))

HasText(cue) == Trim(CueText(cue)) # <<>>

\* The start of a cue, by its dialect.
CueStart(cue) ==
    IF cue[1].name = "text" THEN TextTiming(cue[1].attrs, "start")
    ELSE PTiming(cue[1].attrs, "t")

RECURSIVE Starts(_)
Starts(cues) == IF cues = <<>> THEN <<>> ELSE <<CueStart(Head(cues))>> \o Starts(Tail(cues))

RECURSIVE ItemStarts(_)
ItemStarts(its) ==
    IF its = <<>> THEN <<>> ELSE <<Head(its).start>> \o ItemStarts(Tail(its))

----------------------------------------------------------------------------
(* Properties of parse *)

\* C1: for every well-formed document parse returns exactly one item per
\* top-level cue element (text or p) whose decoded, trimmed text is not
\* empty, in the order of the elements in the document.
C1_OneItemPerCue ==
    (Done /\ WellFormed(xml)) =>
        /\ frame.result.tag = "Ok"
        /\ ItemStarts(frame.result.items)
               = Starts(SelectSeq(TopLevelCues(xml, 1), HasText))

\* C2: when the end of the input is reached before every opened element is
\* closed, or the reader reports an error, parse returns Err.
C2_UnterminatedIsErr ==
    (/\ Done
     /\ \/ frame.reader.pos > Len(xml) /\ frame.reader.opened # <<>>
        \/ \E i \in 1..(frame.reader.pos - 1) : xml[i].kind = "Bad")
        => frame.result.tag = "Err"

\* A string of decimal digits.
IsDigits(ds) == ds # <<>> /\ \A i \in 1..Len(ds) : ToDigit(ds[i], 10) >= 0

\* A p cue with t = m and d = n, m and n whole numbers of milliseconds.
IsMsCue(doc) ==
    /\ Len(doc) = 3
    /\ doc[1].kind = "Start" /\ doc[1].name = "p"
    /\ Len(doc[1].attrs) = 2
    /\ doc[1].attrs[1].key = "t" /\ IsDigits(doc[1].attrs[1].value)
    /\ doc[1].attrs[2].key = "d" /\ IsDigits(doc[1].attrs[2].value)
    /\ doc[2].kind = "Text"
    /\ doc[3] = En("p")

\* The text cue with the same content, start = m/1000 and dur = n/1000.
TextTwin(doc) ==
    <<St("text", <<Attr("start", SecOfMs(doc[1].attrs[1].value)),
                   Attr("dur", SecOfMs(doc[1].attrs[2].value))>>),
      doc[2], En("text")>>

\* A whole number below 2^53: one a double holds exactly.
Below2To53(ds) ==
    BigLess(BigNorm(BigOfDigits(ds, <<>>)), BigTimesPow2(<<1>>, MantissaBits))

\* C3, as amended: for whole numbers m and n below 2^53, a p element with
\* t = m and d = n gives what a text element with the same content and
\* start = m/1000, dur = n/1000 gives.
C3_SameTimingBelow2To53 ==
    (/\ Done
     /\ IsMsCue(xml)
     /\ Below2To53(xml[1].attrs[1].value)
     /\ Below2To53(xml[1].attrs[2].value))
        => frame.result = Parse(parser, TextTwin(xml))

C3_Witness ==
    /\ Done
    /\ xml = <<St("p", <<Attr("t", Ms2500), Attr("d", Ms3000)>>), Tx(Hi), En("p")>>
    /\ frame.result = Ok(<<TranscriptItem(Hi, ParseF64(Sec25), ParseF64(<<"3">>))>>)

\* C3, as claimed: the same for all whole numbers m and n.
C3_SameTiming ==
    (Done /\ IsMsCue(xml)) => frame.result = Parse(parser, TextTwin(xml))

\* Every item has a text that is not empty and neither starts nor ends with
\* whitespace.
ItemsTrimmed(its) ==
    \A i \in 1..Len(its) :
        /\ its[i].text # <<>>
        /\ Head(its[i].text) \notin Whitespace
        /\ its[i].text[Len(its[i].text)] \notin Whitespace

\* The end tag of the cue element parse is in, its text empty or whitespace:
\* no item is added and parse goes on.
DiscardBlank ==
    (/\ frame.pc \in {"text", "p"}
     /\ Event.kind = "End" /\ Event.name = frame.pc
     /\ \A i \in 1..Len(frame.text) : frame.text[i] \in Whitespace)
        => /\ frame'.items = frame.items
           /\ frame'.pc = "parse"
           /\ frame'.result = None

\* C4: a cue element whose accumulated text is empty or only whitespace gives
\* no item and no error, and every item has a text that is not empty and has
\* no leading or trailing whitespace.
C4_BlankDiscarded ==
    /\ [](ItemsTrimmed(frame.items) /\ ItemsTrimmed(frame.result.items))
    /\ [][DiscardBlank]_vars

C4_Witness ==
    /\ Done
    /\ xml = <<St("p", <<Attr("t", Ms7000)>>), Tx(AmpNum160), En("p")>>
    /\ frame.result = Ok(<<>>)

\* C7: in a p element every s or br child, an empty-element tag such as
\* <br/> included, adds one space to the text unless the text ends with one.
Marker ==
    /\ frame.pc = "p"
    /\ Event.kind \in {"Start", "Empty"}
    /\ Event.name \in {"s", "br"}

C7_MarkerIsOneSpace ==
    [][Marker =>
          frame'.text = IF frame.text # <<>> /\ frame.text[Len(frame.text)] = " "
                        THEN frame.text
                        ELSE Append(frame.text, " ")]_vars

\* A cue with the text Hi and any attributes.
IsTimingDoc(doc) ==
    /\ Len(doc) = 3
    /\ doc[1].kind = "Start" /\ doc[1].name \in {"text", "p"}
    /\ doc[2] = Tx(Hi)
    /\ doc[3] = En(doc[1].name)

\* The attribute is absent, or its value is no number.
Defaulted(attrs, key) ==
    \/ \A i \in 1..Len(attrs) : attrs[i].key # key
    \/ \E i \in 1..Len(attrs) :
          /\ attrs[i].key = key
          /\ \A j \in 1..(i - 1) : attrs[j].key # key
          /\ attrs[i].value \in JunkValues

\* The attribute says three seconds.
SaysThree(attrs, key, value) ==
    /\ Len(SelectSeq(attrs, LAMBDA a : a.key = key)) = 1
    /\ \E i \in 1..Len(attrs) : attrs[i].key = key /\ attrs[i].value = value

\* What a timing attribute has to give.
TimingAsSaid(attrs, key, three, got) ==
    /\ Defaulted(attrs, key) => got = F64Zero(FALSE)
    /\ SaysThree(attrs, key, three) => got = ParseF64(<<"3">>)

\* C8: a timing attribute that is absent or no number gives 0.0 and does not
\* fail the parse, for start and dur of a text element and for t and d of a p
\* element, each by itself; the other attribute and the text are still taken.
C8_TimingDefaults ==
    (Done /\ IsTimingDoc(xml)) =>
        /\ frame.result.tag = "Ok"
        /\ Len(frame.result.items) = 1
        /\ frame.result.items[1].text = Hi
        /\ IF xml[1].name = "text"
           THEN /\ TimingAsSaid(xml[1].attrs, "start", Sec30, frame.result.items[1].start)
                /\ TimingAsSaid(xml[1].attrs, "dur", Sec30, frame.result.items[1].duration)
           ELSE /\ TimingAsSaid(xml[1].attrs, "t", Ms3000, frame.result.items[1].start)
                /\ TimingAsSaid(xml[1].attrs, "d", Ms3000, frame.result.items[1].duration)

C8_Witness ==
    /\ Done
    /\ xml = <<St("p", <<Attr("t", <<"a", "b", "c">>), Attr("d", Ms3000)>>), Tx(Hi), En("p")>>
    /\ frame.result = Ok(<<TranscriptItem(Hi, F64Zero(FALSE), ParseF64(<<"3">>))>>)

HelloAndWorld ==
    <<"H", "e", "l", "l", "o", " ", "&", " ", "w", "o", "r", "l", "d">>

\* C9: XML unescaping first, the HTML entity decoder on its result: a cue
\* written &amp;lt; has the text <, a cue written Hello &amp; world has the
\* text Hello & world.
C9_TwoPasses ==
    Done =>
        \A k \in {"text", "p"} :
            /\ xml = <<St(k, <<>>), Tx(AmpLt), En(k)>>
                  => frame.result
                       = Ok(<<TranscriptItem(<<"<">>, F64Zero(FALSE), F64Zero(FALSE))>>)
            /\ xml = <<St(k, <<>>), Tx(HelloAmpWorld), En(k)>>
                  => frame.result
                       = Ok(<<TranscriptItem(HelloAndWorld, F64Zero(FALSE), F64Zero(FALSE))>>)

\* C10: a parser built with the flag true and one built with the flag false
\* return the same from parse, for every document.
C10_FlagInert ==
    Done => frame.result = Parse(NewParser(~parser._preserve_formatting), xml)

C10_Witness ==
    /\ Done
    /\ parser._preserve_formatting
    /\ frame.result.tag = "Ok"
    /\ \E i \in 1..Len(xml) : xml[i] = Tx(AAmpNbsp)
    /\ Len(frame.result.items) = 1

----------------------------------------------------------------------------
(* Properties of decode_html_entities *)

\* A character of the name of a character reference.
NameChar(ch) == ch \notin ({"&", ";"} \cup Whitespace)

RECURSIVE NameLen(_)
NameLen(str) ==
    IF str # <<>> /\ NameChar(Head(str)) THEN 1 + NameLen(Tail(str)) ELSE 0

\* After an "&": a name and a ";".
IsEntityAt(rest) ==
    /\ NameLen(rest) >= 1
    /\ Len(rest) > NameLen(rest)
    /\ rest[NameLen(rest) + 1] = ";"

NameAt(rest) == SubSeq(rest, 1, NameLen(rest))
AfterEntity(rest) == Drop(rest, NameLen(rest) + 1)

AllDigits(ds, radix) == ds # <<>> /\ \A i \in 1..Len(ds) : ToDigit(ds[i], radix) >= 0

NamedEntities ==
    { <<"q", "u", "o", "t">>, <<"a", "m", "p">>, <<"a", "p", "o", "s">>,
      <<"l", "t">>, <<"g", "t">>, <<"n", "b", "s", "p">> }

NamedChar(name) ==
    CASE name = <<"q", "u", "o", "t">> -> "\""
      [] name = <<"a", "m", "p">> -> "&"
      [] name = <<"a", "p", "o", "s">> -> "'"
      [] name = <<"l", "t">> -> "<"
      [] name = <<"g", "t">> -> ">"
      [] name = <<"n", "b", "s", "p">> -> " "

\* The code point of a numeric reference &#N; or &#xH;: digits only; -1 for
\* a name that is none, NoChar and above for a number that is no character.
NumericRef(name) ==
    IF StartsWith(name, <<"#", "x">>) \/ StartsWith(name, <<"#", "X">>)
    THEN IF AllDigits(Drop(name, 2), 16) THEN DigitsValue(Drop(name, 2), 16, 0) ELSE -1
    ELSE IF StartsWith(name, <<"#">>)
    THEN IF AllDigits(Drop(name, 1), 10) THEN DigitsValue(Drop(name, 1), 10, 0) ELSE -1
    ELSE -1

\* The name is one of the six, or a numeric reference to a character.
Recognized(name) == name \in NamedEntities \/ IsChar(NumericRef(name))

RecognizedChar(name) ==
    IF name \in NamedEntities THEN NamedChar(name) ELSE CharOf(NumericRef(name))

Decoding == dpc = "loop" /\ chars # <<>>

\* C5: each of the six named entities and each numeric reference to a valid
\* character is replaced by its character, and every character outside an
\* entity is copied unchanged and in order.
C5_EntitiesReplaced ==
    [][Decoding =>
          IF Head(chars) = "&" /\ IsEntityAt(Tail(chars))
          THEN Recognized(NameAt(Tail(chars))) =>
                  /\ dresult' = Append(dresult, RecognizedChar(NameAt(Tail(chars))))
                  /\ chars' = AfterEntity(Tail(chars))
          ELSE /\ dresult' = Append(dresult, Head(chars))
               /\ chars' = Tail(chars)]_vars

\* C6: an entity whose name is not one of the six and no numeric reference to
\* a valid character is output as it was in the input: "&", the name, ";".
C6_UnknownVerbatim ==
    [][(/\ Decoding
        /\ Head(chars) = "&"
        /\ IsEntityAt(Tail(chars))
        /\ ~Recognized(NameAt(Tail(chars))))
          => /\ dresult' = dresult \o Verbatim(NameAt(Tail(chars)))
             /\ chars' = AfterEntity(Tail(chars))]_vars

----------------------------------------------------------------------------
(* sanitize_filename and the output destination (src/src/main.rs) *)

\* Characters outside ASCII are named by their code point, as CharOf names
\* them: U+233 is e with acute (two bytes of UTF-8), U+23383 a CJK ideograph
\* (three bytes).
Utf8Len(c) == CASE c = "U+233" -> 2 [] c = "U+23383" -> 3 [] OTHER -> 1

\* char::is_alphanumeric
IsAlphanumeric(c) == c \in {"A", "b", "v", "t", "1", "2", "3", "U+233", "U+23383"}

\* String::len: the length in bytes, a character taking one to four
ByteLen(str) ==
    Cardinality(DOMAIN str)
    + Cardinality({ i \in DOMAIN str : Utf8Len(str[i]) >= 2 })
    + Cardinality({ i \in DOMAIN str : Utf8Len(str[i]) >= 3 })
    + Cardinality({ i \in DOMAIN str : Utf8Len(str[i]) >= 4 })

\* .chars().map(|c| if c.is_alphanumeric() || c == ' ' || ... { c } else { '_' })
KeepOrUnderscore(str) ==
    [i \in 1..Len(str) |->
        IF IsAlphanumeric(str[i]) \/ str[i] \in {" ", "-", "_", "."}
        THEN str[i] ELSE "_"]

\* The position of the first whitespace of str, Len(str) + 1 without one.
FirstWhitespace(str) ==
    IF \A i \in DOMAIN str : str[i] \notin Whitespace
    THEN Len(str) + 1
    ELSE CHOOSE i \in DOMAIN str :
            /\ str[i] \in Whitespace
            /\ \A j \in 1..(i - 1) : str[j] \notin Whitespace

\* str::split_whitespace: the non-empty runs of characters that are not
\* whitespace, the first of them cut off rest, which starts with none.
RECURSIVE SplitWords(_)
SplitWords(rest) ==
    IF rest = <<>> THEN <<>>
    ELSE <<SubSeq(rest, 1, FirstWhitespace(rest) - 1)>>
         \o SplitWords(TrimStart(SubSeq(rest, FirstWhitespace(rest), Len(rest)),
                                  Whitespace))

SplitWhitespace(str) == SplitWords(TrimStart(str, Whitespace))

\* [&str]::join
RECURSIVE Join(_, _)
Join(words, sep) ==
    IF words = <<>> THEN <<>>
    ELSE IF Len(words) = 1 THEN Head(words)
         ELSE Head(words) \o sep \o Join(Tail(words), sep)

\* Each character of str with the character before it, "" before the first.
WithPrevious(str) ==
    [i \in DOMAIN str |-> <<str[i], IF i > 1 THEN str[i - 1] ELSE "">>]

NotAfterUnderscore(pair) == ~(pair[1] = "_" /\ pair[2] = "_")

Firsts(pairs) == [i \in DOMAIN pairs |-> pairs[i][1]]

\* .chars().fold(String::new(), ...): an underscore is not pushed when acc
\* ends with one, which it does exactly when the character before was one.
CollapseUnderscores(str) ==
    Firsts(SelectSeq(WithPrevious(str), NotAfterUnderscore))

\* The characters of str that lie wholly in its first n bytes.
CharsWithin(str, n) ==
    SubSeq(str, 1,
           Cardinality({ m \in DOMAIN str : ByteLen(SubSeq(str, 1, m)) <= n }))

FilenameLimit == 200

\* What a call gives: a value, or a panic that unwinds.
Value(v) == [panic |-> FALSE, value |-> v]
Panic == [panic |-> TRUE, value |-> <<>>]

\* &sanitized[..200]: the slice panics when byte 200 is inside a character.
WholeOrPanic(prefix, n) == IF ByteLen(prefix) = n THEN Value(prefix) ELSE Panic

SliceTo(str, n) == WholeOrPanic(CharsWithin(str, n), n)

\* if sanitized.len() > 200 { &sanitized[..200] } else { &sanitized }
Truncate(str) ==
    IF ByteLen(str) > FilenameLimit THEN SliceTo(str, FilenameLimit) ELSE Value(str)

\* sanitized.trim_end_matches('_').to_string()
TrimEndUnderscores(cut) ==
    IF cut.panic THEN Panic ELSE Value(TrimEnd(cut.value, {"_"}))

sanitize_filename(title) ==
    TrimEndUnderscores(
        Truncate(
            CollapseUnderscores(
                Join(SplitWhitespace(Trim(KeepOrUnderscore(title))), <<"_">>))))

\* Two titles that sanitize to one name, and two of 201 bytes: byte 200 is
\* inside the last ideograph of the first and a character boundary of the
\* second.
TitleSpaced == <<"A", " ", "b">>
TitleSlashed == <<"A", "/", "b">>
TitleIdeographs == [i \in 1..67 |-> "U+23383"]
TitleAccents == [i \in 1..100 |-> "U+233"] \o <<"A">>
Titles == { TitleSpaced, TitleSlashed, TitleIdeographs, TitleAccents }

\* sanitize_filename on each of the titles
SanitizedTitle == [title \in Titles |-> sanitize_filename(title)]

\* An Option is None, <<>>, or Some(v), <<v>>.
UnwrapOr(opt, default) == IF opt = <<>> THEN default ELSE opt[1]

\* OutputDestination; File(base.join(name)), where joining nothing leaves base.
Stdout == [tag |-> "Stdout", base |-> "", name |-> <<>>]
File(base, name) == [tag |-> "File", base |-> base, name |-> name]

\* What the resolution of the destination gives: a destination, the error
\* returned with `?`, or a panic.
Resolved(dest) == [kind |-> "dest", dest |-> dest, err |-> ""]
Failed(err) == [kind |-> "err", dest |-> Stdout, err |-> err]
Panicked == [kind |-> "panic", dest |-> Stdout, err |-> ""]

\* str::to_lowercase on the formats of Formats
ToLowercase(format) ==
    CASE format = "SRT" -> "srt" [] format = "Json" -> "json" [] OTHER -> format

\* match args.format.to_lowercase().as_str() { "json" => "json", ... }
Extension(format) ==
    CASE ToLowercase(format) = "json" -> <<"j", "s", "o", "n">>
      [] ToLowercase(format) = "srt" -> <<"s", "r", "t">>
      [] ToLowercase(format) \in {"markdown", "md"} -> <<"m", "d">>
      [] OTHER -> <<"t", "x", "t">>

\* The value of -o with what the file system and Path say of it:
\* [text, exists, is_dir, ends_with_sep, parent, file_stem, extension].
IsDirectory(output) ==
    IF output.exists THEN output.is_dir ELSE output.ends_with_sep

\* format!("{}.{}", sanitized_title, extension), joined to base
TitleNamed(base, sanitized, format) ==
    IF sanitized.panic THEN Panicked
    ELSE Resolved(File(base, sanitized.value \o <<".">> \o Extension(format)))

\* As TitleFile, a transcript without a title giving the file "untitled".
TitleFileUntitled(base, title, format) ==
    IF title = <<>>
    THEN Resolved(File(base, <<"u", "n", "t", "i", "t", "l", "e", "d", ".">>
                                 \o Extension(format)))
    ELSE TitleNamed(base, SanitizedTitle[title[1]], format)

\* transcript.title.as_ref().ok_or_else(...)?, then the file named after it
TitleFile(base, title, format) ==
    IF title = <<>> THEN Failed("YouTubeDataUnparsable")
    ELSE TitleNamed(base, SanitizedTitle[title[1]], format)

\* format!("{}.{}", video_id, extension), joined to base
IdFile(base, video_id, format) ==
    Resolved(File(base, video_id \o <<".">> \o Extension(format)))

\* format!("{}_{}.{}", stem, video_id, extension), joined to the parent
StemIdFile(output, video_id) ==
    Resolved(File(UnwrapOr(output.parent, "."),
                  UnwrapOr(output.file_stem, <<"o", "u", "t", "p", "u", "t">>)
                      \o <<"_">> \o video_id \o <<".">>
                      \o UnwrapOr(output.extension, <<"t", "x", "t">>)))

\* let output_dest = if let Some(ref output_path) = args.output { ... }
WithOutput(args, output, title, video_id, video_index) ==
    IF IsDirectory(output) /\ args.name
    THEN TitleFile(output.text, title, args.format)
    ELSE IF IsDirectory(output) /\ video_index # <<>>
         THEN IdFile(output.text, video_id, args.format)
         ELSE IF video_index # <<>>
              THEN StemIdFile(output, video_id)
              ELSE Resolved(File(output.text, <<>>))

OutputDest(args, title, video_id, video_index) ==
    IF args.output # <<>>
    THEN WithOutput(args, args.output[1], title, video_id, video_index)
    ELSE IF args.name
         THEN TitleFile("", title, args.format)
         ELSE IF video_index # <<>>
              THEN IdFile("", video_id, args.format)
              ELSE Resolved(Stdout)

----------------------------------------------------------------------------
(* main, run and process_single_video as a state machine *)

MaxVideos == 2

VideoIds == { <<"v", "1">>, <<"v", "2">> }

\* -o out (a directory that exists), -o new/ (nothing there yet) and
\* -o t.md (a file path)
OutDir ==
    [text |-> "out", exists |-> TRUE, is_dir |-> TRUE, ends_with_sep |-> FALSE,
     parent |-> <<"">>, file_stem |-> << <<"o", "u", "t">> >>, extension |-> <<>>]
OutNewDir ==
    [text |-> "new/", exists |-> FALSE, is_dir |-> FALSE, ends_with_sep |-> TRUE,
     parent |-> <<"">>, file_stem |-> << <<"n", "e", "w">> >>, extension |-> <<>>]
OutFile ==
    [text |-> "t.md", exists |-> FALSE, is_dir |-> FALSE, ends_with_sep |-> FALSE,
     parent |-> <<"">>, file_stem |-> << <<"t">> >>, extension |-> << <<"m", "d">> >>]
Outputs == { <<>>, <<OutDir>>, <<OutNewDir>>, <<OutFile>> }

Maxes == { <<>> } \cup { <<k>> : k \in 0..MaxVideos }

\* The command lines: every combination of -p, -m, -o and -n, and some with
\* --list or another format.
RunArgs ==
    [playlist : BOOLEAN, max : Maxes, output : Outputs, name : BOOLEAN,
     list : {FALSE}, format : {"text"}]
    \cup [playlist : BOOLEAN, max : {<<>>}, output : {<<>>}, name : {FALSE},
          list : {TRUE}, format : {"text"}]
    \cup [playlist : {TRUE}, max : {<<>>}, output : {<<>>, <<OutDir>>},
          name : BOOLEAN, list : {FALSE}, format : {"SRT", "md", "vtt"}]

NoCall == [video_id |-> <<>>, video_index |-> <<>>, total_videos |-> <<>>]

\* The state as main calls run(args):
\*   pc:        "run" | "playlist_id" | "loop" | "video_id" | "process" |
\*              "fetched" | "resolved" | "returned" | "exited" | "idle"
\*   playlist_id, video_ids, video_id: what extract_playlist_id,
\*              get_playlist_video_ids and extract_video_id returned
\*   videos_to_process, index: the Vec and the position of the for loop
\*   call:      the arguments of the call of process_single_video in progress
\*   title, output_dest: transcript.title and output_dest of that call
\*   calls:     the calls of process_single_video so far
\*   returns:   what those of them that returned, returned
\*   dests:     the destinations resolved so far, each with its video_id
\*   result:    what run returned
\*   exit:      the exit status of the process, None while it runs
NewRun(args) ==
    [pc |-> "run", args |-> args, playlist_id |-> None, video_ids |-> None,
     video_id |-> None, videos_to_process |-> <<>>, index |-> 0,
     call |-> NoCall, title |-> <<>>, output_dest |-> Stdout,
     calls |-> <<>>, returns |-> <<>>, dests |-> <<>>,
     result |-> None, exit |-> <<>>]

\* run returns res to main.
RunReturns(r, res) == [r EXCEPT !.pc = "returned", !.result = res]

\* let playlist_id = YouTubeTranscript::extract_playlist_id(&args.video)?;
AfterExtractPlaylistId(r, res) ==
    IF res.tag = "Err"
    THEN RunReturns([r EXCEPT !.playlist_id = res], res)
    ELSE [r EXCEPT !.playlist_id = res, !.pc = "playlist_id"]

Min(a, b) == IF a < b THEN a ELSE b

\* video_ids.iter().take(limit)
Take(ids, limit) == SubSeq(ids, 1, limit)

VideosToProcessAll(max, video_ids) == video_ids

\* let videos_to_process = if let Some(max) = args.max { ... } else { ... };
VideosToProcess(max, video_ids) ==
    IF max # <<>>
    THEN Take(video_ids, Min(max[1], Len(video_ids)))
    ELSE video_ids

AfterEnumerationIgnoringErr(r, res) ==
    [r EXCEPT !.video_ids = res, !.pc = "loop", !.index = 0,
              !.videos_to_process = VideosToProcess(r.args.max, res.items)]

\* let video_ids = api.get_playlist_video_ids(&playlist_id).await?; and the
\* choice of the videos to process
AfterEnumeration(r, res) ==
    IF res.tag = "Err"
    THEN RunReturns([r EXCEPT !.video_ids = res], res)
    ELSE [r EXCEPT !.video_ids = res, !.pc = "loop", !.index = 0,
                   !.videos_to_process = VideosToProcess(r.args.max, res.items)]

\* process_single_video(&api, &args, video_id, video_index, total_videos) is
\* called.
CallOf(video_id, video_index, total_videos) ==
    [video_id |-> video_id, video_index |-> video_index,
     total_videos |-> total_videos]

Call(r, c) ==
    [r EXCEPT !.pc = "process", !.call = c, !.calls = Append(@, c),
              !.title = <<>>, !.output_dest = Stdout]

\* The position of the video the for loop takes next.
NextPositionFromEnd(r) == Len(r.videos_to_process) - r.index

NextPosition(r) == r.index + 1

\* let video_id = YouTubeTranscript::extract_video_id(&args.video)?;
AfterExtractVideoId(r, res) ==
    IF res.tag = "Err"
    THEN RunReturns([r EXCEPT !.video_id = res], res)
    ELSE [r EXCEPT !.video_id = res, !.pc = "video_id"]

\* process_single_video returns res: in the for loop an Err is printed and
\* the loop goes on (`continue`), as it does after an Ok; in single-video
\* mode res is what run returns.
ProcessReturns(r, res) ==
    IF r.call.video_index # <<>>
    THEN [r EXCEPT !.returns = Append(@, res), !.index = @ + 1, !.pc = "loop"]
    ELSE RunReturns([r EXCEPT !.returns = Append(@, res)], res)

\* api.translate_transcript(...).await? or api.fetch_transcript(...).await?,
\* and with --cleanup the call of ChatGPT, which can fail as well
AfterFetch(r, res) ==
    IF res.tag = "Err"
    THEN ProcessReturns(r, res)
    ELSE [r EXCEPT !.title = res.items, !.pc = "fetched"]

\* let output_dest = ...: a destination, a return with `?`, or a panic, which
\* unwinds through run and main and ends the process with status 101.
AfterResolve(r, d) ==
    CASE d.kind = "dest" ->
            [r EXCEPT !.output_dest = d.dest, !.pc = "resolved",
                      !.dests = Append(@, [video_id |-> r.call.video_id,
                                           dest |-> d.dest])]
      [] d.kind = "err" -> ProcessReturns(r, Err(d.err))
      [] OTHER -> [r EXCEPT !.pc = "exited", !.exit = <<101>>]

\* if let Err(e) = run(args).await { ...; std::process::exit(1); }
ExitStatus(res) == IF res.tag = "Err" THEN 1 ELSE 0

EnumerationErrors == { "HttpError", "YouTubeDataUnparsable" }
VideoErrors == { "VideoUnavailable" }

(* run *)

ExtractPlaylistId ==
    /\ run.pc = "run"
    /\ run.args.playlist
    /\ \E res \in { Ok(<<>>), Err("InvalidVideoId") } :
          run' = AfterExtractPlaylistId(run, res)
    /\ UNCHANGED <<decodeVars, parseVars, libVars>>

GetPlaylistVideoIds ==
    /\ run.pc = "playlist_id"
    /\ \E res \in { Ok(ids) : ids \in SeqsUpTo(VideoIds, MaxVideos) }
                  \cup { Err(e) : e \in EnumerationErrors } :
          run' = AfterEnumeration(run, res)
    /\ UNCHANGED <<decodeVars, parseVars, libVars>>

\* for (index, video_id) in videos_to_process.iter().enumerate()
LoopCall ==
    /\ run.pc = "loop"
    /\ run.index < Len(run.videos_to_process)
    /\ run' = Call(run, CallOf(run.videos_to_process[NextPosition(run)],
                               <<NextPosition(run)>>,
                               <<Len(run.videos_to_process)>>))
    /\ UNCHANGED <<decodeVars, parseVars, libVars>>

\* the loop is over: return Ok(());
LoopReturn ==
    /\ run.pc = "loop"
    /\ run.index >= Len(run.videos_to_process)
    /\ run' = RunReturns(run, Ok(<<>>))
    /\ UNCHANGED <<decodeVars, parseVars, libVars>>

ExtractVideoId ==
    /\ run.pc = "run"
    /\ ~run.args.playlist
    /\ \E res \in { Ok(id) : id \in VideoIds } \cup { Err("InvalidVideoId") } :
          run' = AfterExtractVideoId(run, res)
    /\ UNCHANGED <<decodeVars, parseVars, libVars>>

\* process_single_video(&api, &args, &video_id, None, None).await
SingleCall ==
    /\ run.pc = "video_id"
    /\ run' = Call(run, CallOf(run.video_id.items, <<>>, <<>>))
    /\ UNCHANGED <<decodeVars, parseVars, libVars>>

(* process_single_video *)

\* if args.list { ...; return Ok(()); }
ListTranscripts ==
    /\ run.pc = "process"
    /\ run.args.list
    /\ \E res \in { Ok(<<>>) } \cup { Err(e) : e \in VideoErrors } :
          run' = ProcessReturns(run, res)
    /\ UNCHANGED <<decodeVars, parseVars, libVars>>

FetchTranscript ==
    /\ run.pc = "process"
    /\ ~run.args.list
    /\ \E res \in { Ok(<<>>) } \cup { Ok(<<t>>) : t \in Titles }
                  \cup { Err(e) : e \in VideoErrors } :
          run' = AfterFetch(run, res)
    /\ UNCHANGED <<decodeVars, parseVars, libVars>>

ResolveDestination ==
    /\ run.pc = "fetched"
    /\ run' = AfterResolve(run, OutputDest(run.args, run.title, run.call.video_id,
                                           run.call.video_index))
    /\ UNCHANGED <<decodeVars, parseVars, libVars>>

\* match args.format.to_lowercase().as_str() { ... output_*(...)?, ... } Ok(())
WriteOutput ==
    /\ run.pc = "resolved"
    /\ \E res \in { Ok(<<>>), Err("IoError") } :
          run' = ProcessReturns(run, res)
    /\ UNCHANGED <<decodeVars, parseVars, libVars>>

(* main *)

MainExit ==
    /\ run.pc = "returned"
    /\ run' = [run EXCEPT !.pc = "exited", !.exit = <<ExitStatus(run.result)>>]
    /\ UNCHANGED <<decodeVars, parseVars, libVars>>

NextRun ==
    \/ ExtractPlaylistId
    \/ GetPlaylistVideoIds
    \/ LoopCall
    \/ LoopReturn
    \/ ExtractVideoId
    \/ SingleCall
    \/ ListTranscripts
    \/ FetchTranscript
    \/ ResolveDestination
    \/ WriteOutput
    \/ MainExit

InitRun ==
    /\ run \in { NewRun(args) : args \in RunArgs }
    /\ ParseIdle
    /\ DecodeIdle
    /\ LibIdle

SpecRun == InitRun /\ [][NextRun]_vars

\* The command lines of the runs checked for what they get to in the end.
FairRunArgs ==
    { args \in RunArgs :
        /\ args.max \in { <<>>, <<1>> }
        /\ args.output \in { <<>>, <<OutFile>> }
        /\ args.format = "text" }

InitRunFair ==
    /\ run \in { NewRun(args) : args \in FairRunArgs }
    /\ ParseIdle
    /\ DecodeIdle
    /\ LibIdle

\* The runtime polls the one task of main until it is complete, and every
\* call the task awaits returns: no step that can be taken is put off for ever.
SpecRunFair == InitRunFair /\ [][NextRun]_vars /\ WF_vars(NextRun)

----------------------------------------------------------------------------
(* What a playlist run is to do, read off the enumeration *)

\* get_playlist_video_ids has returned the list of IDs.
Enumerated == run.video_ids.tag = "Ok"

\* One call for each of the videos, in their order and with their positions.
ExpectedCalls(videos) ==
    [i \in DOMAIN videos |-> CallOf(videos[i], <<i>>, <<Len(videos)>>)]

AllInvoked == run.calls = ExpectedCalls(run.videos_to_process)

\* C11: in playlist mode, once the list of video IDs has been obtained,
\* process_single_video is eventually invoked for every video selected for
\* processing, each with its own ID and position, whatever became of the
\* videos before it.
C11_EveryVideoInvoked == Enumerated ~> AllInvoked

\* The error the enumeration failed with, None when it has not failed.
EnumerationFailure ==
    IF run.playlist_id.tag = "Err" THEN run.playlist_id
    ELSE IF run.video_ids.tag = "Err" THEN run.video_ids ELSE None

\* C12: in playlist mode, when extract_playlist_id or get_playlist_video_ids
\* fails, run returns that error at once (nothing is asked for after it) and
\* process_single_video is invoked for no video.
C12_EnumerationFailureAborts ==
    EnumerationFailure # None =>
        /\ run.pc \in {"returned", "exited"}
        /\ run.result = EnumerationFailure
        /\ run.calls = <<>>
        /\ run.playlist_id.tag = "Err" => run.video_ids = None

C12_Witness ==
    /\ run.pc = "exited"
    /\ run.args.playlist
    /\ run.playlist_id.tag = "Ok"
    /\ run.video_ids = Err("HttpError")
    /\ run.result = Err("HttpError")
    /\ run.calls = <<>>

Exited == run.pc = "exited"

\* A call of process_single_video has returned an error.
SomeVideoFailed == \E i \in DOMAIN run.returns : run.returns[i].tag = "Err"

\* C13: the process exits with a status other than zero exactly when run
\* returned an error: in single-video mode after any error of
\* extract_video_id or of the processing of the video; in playlist mode, once
\* the enumeration has succeeded, run returns Ok and the status is zero however
\* many videos failed.
C13_ExitStatus ==
    Exited =>
        /\ run.exit # <<0>> <=> run.result.tag = "Err"
        /\ (~run.args.playlist /\ (run.video_id.tag = "Err" \/ SomeVideoFailed))
              => run.exit # <<0>>
        /\ (run.args.playlist /\ Enumerated)
              => (run.result = Ok(<<>>) /\ run.exit = <<0>>)

\* How many calls of calls are for the video v, and how often v is in ids.
CallsFor(calls, v) == Cardinality({ i \in DOMAIN calls : calls[i].video_id = v })
Occurrences(ids, v) == Cardinality({ i \in DOMAIN ids : ids[i] = v })

\* C14: in a playlist run a call of process_single_video starts only when
\* every call before it has returned, it is for the video at the next position
\* of the list get_playlist_video_ids returned, and no video is called more
\* often than its ID is in that list.
C14_OneAtATimeInOrder ==
    [][run.args.playlist =>
          /\ run'.calls # run.calls =>
                /\ Len(run.returns) = Len(run.calls)
                /\ run'.calls =
                      Append(run.calls,
                             CallOf(run.video_ids.items[Len(run.calls) + 1],
                                    <<Len(run.calls) + 1>>,
                                    <<Len(run.videos_to_process)>>))
          /\ \A v \in VideoIds :
                CallsFor(run'.calls, v) <= Occurrences(run'.video_ids.items, v)]_vars

C14_Witness ==
    /\ run.args.playlist
    /\ run.video_ids = Ok(<< <<"v", "2">>, <<"v", "2">> >>)
    /\ Len(run.calls) = 2
    /\ run.returns = << Err("VideoUnavailable") >>
    /\ run.pc = "process"

\* The IDs of the calls, in their order.
CalledIds == [i \in DOMAIN run.calls |-> run.calls[i].video_id]

\* The first min(k, n) of the n IDs with --max k, all of them without --max.
FirstUpToMax(max, ids) ==
    SubSeq(ids, 1, IF max = <<>> \/ max[1] > Len(ids) THEN Len(ids) ELSE max[1])

----------------------------------------------------------------------------
(* get_playlist_video_ids (the Playlist Traverser; its source is not in    *)
(* src/, the model follows the specification, section 4.6 and 7)           *)

MaxPages == 3

\* The IDs one page can list.
PageIds == { <<>>, << <<"v", "1">> >>, << <<"v", "2">> >>,
             << <<"v", "1">>, <<"v", "2">> >> }

\* A page is [ids, token]: its IDs in encounter order and its continuation
\* token, an Option; the token of a page names the page it continues with.
PagesOf(n) ==
    { pages \in [1..n -> [ids : PageIds,
                          token : { <<>> } \cup { <<j>> : j \in 2..n }]] :
        \A i \in 1..n : pages[i].token = <<>> \/ pages[i].token[1] > i }

\* What the site holds for a playlist: its first page and the pages the
\* tokens lead to.
Playlists == UNION { PagesOf(n) : n \in 1..MaxPages }

\* The state of a call:
\*   pc:        "first" | "more" | "done" | "idle"
\*   pages:     the pages of the site
\*   token:     the token of the page fetched last
\*   video_ids: the IDs collected
\*   requests:  the pages requested, in order
\*   result:    what the call returned
NewTraversal(pages) ==
    [pc |-> "first", pages |-> pages, token |-> <<>>, video_ids |-> <<>>,
     requests |-> <<>>, result |-> None]

\* The IDs of a page that are new.
RECURSIVE NotYetIn(_, _)
NotYetIn(ids, seen) ==
    IF ids = <<>> THEN <<>>
    ELSE IF \E i \in DOMAIN seen : seen[i] = Head(ids)
         THEN NotYetIn(Tail(ids), seen)
         ELSE <<Head(ids)>> \o NotYetIn(Tail(ids), Append(seen, Head(ids)))

CollectNew(t, i) ==
    [t EXCEPT !.pc = "more", !.token = t.pages[i].token,
              !.requests = Append(@, i),
              !.video_ids = @ \o NotYetIn(t.pages[i].ids, @)]

\* Page i was fetched: its IDs are appended in encounter order and its token
\* is the one to go on with.
Collect(t, i) ==
    [t EXCEPT !.pc = "more", !.token = t.pages[i].token,
              !.requests = Append(@, i),
              !.video_ids = @ \o t.pages[i].ids]

\* The fetch of page i failed: the error is returned to the caller.
FetchFailed(t, i, err) ==
    [t EXCEPT !.pc = "done", !.requests = Append(@, i), !.result = Err(err)]

\* The playlist page is fetched.
FetchPlaylistPage ==
    /\ traverser.pc = "first"
    /\ \/ traverser' = Collect(traverser, 1)
       \/ traverser' = FetchFailed(traverser, 1, "HttpError")
    /\ UNCHANGED <<decodeVars, parseVars, runVars, query>>

\* The page fetched last carries a token: the continuation is requested.
FetchContinuation ==
    /\ traverser.pc = "more"
    /\ traverser.token # <<>>
    /\ \/ traverser' = Collect(traverser, traverser.token[1])
       \/ traverser' = FetchFailed(traverser, traverser.token[1], "HttpError")
    /\ UNCHANGED <<decodeVars, parseVars, runVars, query>>

\* The page fetched last carries no token: the IDs collected are returned.
TraversalReturn ==
    /\ traverser.pc = "more"
    /\ traverser.token = <<>>
    /\ traverser' = [traverser EXCEPT !.pc = "done",
                                      !.result = Ok(traverser.video_ids)]
    /\ UNCHANGED <<decodeVars, parseVars, runVars, query>>

NextTraversal == FetchPlaylistPage \/ FetchContinuation \/ TraversalReturn

InitTraversal ==
    /\ traverser \in { NewTraversal(pages) : pages \in Playlists }
    /\ query = [pc |-> "idle"]
    /\ ParseIdle
    /\ DecodeIdle
    /\ RunIdle

SpecTraversal == InitTraversal /\ [][NextTraversal]_vars

\* The pages from page i on, along the tokens.
RECURSIVE PagesFrom(_, _)
PagesFrom(pages, i) ==
    IF pages[i].token = <<>> THEN <<i>>
    ELSE <<i>> \o PagesFrom(pages, pages[i].token[1])

\* The IDs of the pages of path, page after page.
RECURSIVE IdsAlong(_, _)
IdsAlong(pages, path) ==
    IF path = <<>> THEN <<>>
    ELSE pages[Head(path)].ids \o IdsAlong(pages, Tail(path))

\* C16: get_playlist_video_ids requests a continuation exactly while the page
\* fetched last carries a token, and then the page of that token; it returns
\* when a fetched page carries none, with the IDs of the fetched pages
\* concatenated in fetch order, each page's IDs in encounter order and
\* duplicates kept.
C16_TraversalToLastPage ==
    /\ traverser.requests =
          SubSeq(PagesFrom(traverser.pages, 1), 1, Len(traverser.requests))
    /\ traverser.result.tag = "Ok" =>
          /\ traverser.requests = PagesFrom(traverser.pages, 1)
          /\ traverser.result.items =
                IdsAlong(traverser.pages, PagesFrom(traverser.pages, 1))
    /\ (traverser.pc = "more" /\ traverser.token # <<>>) =>
          traverser.result = None

C16_Witness ==
    /\ traverser.pc = "done"
    /\ traverser.requests = <<1, 3>>
    /\ Len(traverser.pages) = 3
    /\ traverser.result = Ok(<< <<"v", "1">>, <<"v", "2">>, <<"v", "1">> >>)

----------------------------------------------------------------------------
(* find_transcript and translate (the Transcript List Model; their source  *)
(* is not in src/, the model follows the specification, section 3 and 4.4) *)

MaxCodes == 2

LanguageCodes == {"en", "de", "fr"}

\* CaptionTrack: its language code, its kind, its fetch URL as the list of
\* its parameters, and the translation target it was derived for, an Option.
Track(code, is_generated) ==
    [language_code |-> code, is_generated |-> is_generated,
     url |-> <<code>>, translated_to |-> <<>>]

\* TranscriptList: the two collections keyed by language code and the
\* translation-target languages.
TranscriptLists ==
    { [manually_created |-> [c \in manual |-> Track(c, FALSE)],
       generated |-> [c \in auto |-> Track(c, TRUE)],
       translation_languages |-> targets] :
        manual \in SUBSET LanguageCodes, auto \in SUBSET LanguageCodes,
        targets \in { <<>>, <<"de">>, <<"fr", "en">> } }

\* The first manual track of the codes, before any generated one.
RECURSIVE FindManualFirst(_, _)
FindManualFirst(list, codes) ==
    IF \E i \in DOMAIN codes : codes[i] \in DOMAIN list.manually_created
    THEN Ok(list.manually_created[
                codes[CHOOSE i \in DOMAIN codes :
                        /\ codes[i] \in DOMAIN list.manually_created
                        /\ \A j \in 1..(i - 1) :
                              codes[j] \notin DOMAIN list.manually_created]])
    ELSE IF codes = <<>> THEN Err("NoTranscriptFound")
         ELSE IF Head(codes) \in DOMAIN list.generated
              THEN Ok(list.generated[Head(codes)])
              ELSE FindManualFirst(list, Tail(codes))

\* find_transcript(language_codes): for each code in the order of preference,
\* the manually created track, then the generated one; the first match.
RECURSIVE FindTranscript(_, _)
FindTranscript(list, codes) ==
    IF codes = <<>> THEN Err("NoTranscriptFound")
    ELSE IF Head(codes) \in DOMAIN list.manually_created
         THEN Ok(list.manually_created[Head(codes)])
         ELSE IF Head(codes) \in DOMAIN list.generated
              THEN Ok(list.generated[Head(codes)])
              ELSE FindTranscript(list, Tail(codes))

\* The track derived for a target: its URL carries the target as one more
\* parameter.
Derived(track, target) ==
    [track EXCEPT !.url = Append(@, target), !.translated_to = <<target>>]

\* What translate leaves: the list and what it returns.
Translated(list, res) == [list |-> list, result |-> res]

TranslateKeepingDerived(list, track, target) ==
    IF list.translation_languages = <<>>
    THEN Translated(list, Err("NotTranslatable"))
    ELSE IF \A i \in DOMAIN list.translation_languages :
               list.translation_languages[i] # target
         THEN Translated(list, Err("TranslationLanguageNotAvailable"))
         ELSE Translated(
                 [list EXCEPT !.generated =
                     [c \in DOMAIN @ \cup {target} |-> Derived(track, target)]],
                 Ok(Derived(track, target)))

\* translate(track, target_code)
Translate(list, track, target) ==
    IF list.translation_languages = <<>>
    THEN Translated(list, Err("NotTranslatable"))
    ELSE IF \A i \in DOMAIN list.translation_languages :
               list.translation_languages[i] # target
         THEN Translated(list, Err("TranslationLanguageNotAvailable"))
         ELSE Translated(list, Ok(Derived(track, target)))

\* The state of a query of one list:
\*   pc:      "find" | "found" | "done" | "idle"
\*   list:    the TranscriptList
\*   codes:   the language codes asked for, in the order of preference
\*   target:  the translation target
\*   found:   what find_transcript returned
\*   result:  what translate returned
NewQuery(list, codes, target) ==
    [pc |-> "find", list |-> list, codes |-> codes, target |-> target,
     found |-> None, result |-> None]

AfterTranslate(q, tr) == [q EXCEPT !.pc = "done", !.list = tr.list, !.result = tr.result]

FindStep ==
    /\ query.pc = "find"
    /\ query' = [query EXCEPT !.pc = "found",
                              !.found = FindTranscript(query.list, query.codes)]
    /\ UNCHANGED <<decodeVars, parseVars, runVars, traverser>>

\* The track found is translated.
TranslateStep ==
    /\ query.pc = "found"
    /\ query.found.tag = "Ok"
    /\ query' = AfterTranslate(query, Translate(query.list, query.found.items,
                                                query.target))
    /\ UNCHANGED <<decodeVars, parseVars, runVars, traverser>>

NextQuery == FindStep \/ TranslateStep

InitQuery ==
    /\ query \in { NewQuery(list, codes, target) :
                     list \in TranscriptLists,
                     codes \in SeqsUpTo(LanguageCodes, MaxCodes),
                     target \in LanguageCodes }
    /\ traverser = [pc |-> "idle"]
    /\ ParseIdle
    /\ DecodeIdle
    /\ RunIdle

SpecQuery == InitQuery /\ [][NextQuery]_vars

\* The codes that are a key of either collection.
Available(list) == DOMAIN list.manually_created \cup DOMAIN list.generated

\* The track of a code: the manual one when there is one.
PreferredTrack(list, code) ==
    IF code \in DOMAIN list.manually_created
    THEN list.manually_created[code] ELSE list.generated[code]

\* C17: find_transcript returns the track of the first requested code that is
\* a key of either collection, the manual track of that code when it has one
\* and the generated one otherwise, and NoTranscriptFound exactly when no
\* requested code is a key of either collection.
C17_FirstMatchManualFirst ==
    query.pc \in {"found", "done"} =>
        IF \A i \in DOMAIN query.codes : query.codes[i] \notin Available(query.list)
        THEN query.found = Err("NoTranscriptFound")
        ELSE \E i \in DOMAIN query.codes :
                /\ query.codes[i] \in Available(query.list)
                /\ \A j \in 1..(i - 1) : query.codes[j] \notin Available(query.list)
                /\ query.found = Ok(PreferredTrack(query.list, query.codes[i]))

\* A generated track of the first code wins over a manual one of the second.
C17_Witness ==
    /\ query.pc = "found"
    /\ query.codes = <<"de", "en">>
    /\ DOMAIN query.list.manually_created = {"en"}
    /\ DOMAIN query.list.generated = {"de", "en"}
    /\ query.found = Ok(Track("de", TRUE))

\* C18: translate fails with NotTranslatable when the list has no translation
\* languages, with TranslationLanguageNotAvailable when it has some but not
\* the target, and returns the derived track otherwise; in all three cases
\* the list is left as it was.
C18_TranslateOutcomes ==
    [][(query.pc = "found" /\ query'.pc = "done") =>
          /\ query'.list = query.list
          /\ query'.result =
                IF Len(query.list.translation_languages) = 0
                THEN Err("NotTranslatable")
                ELSE IF query.target \notin
                          { query.list.translation_languages[i] :
                              i \in DOMAIN query.list.translation_languages }
                     THEN Err("TranslationLanguageNotAvailable")
                     ELSE Ok(Derived(query.found.items, query.target))]_vars

C18_Witness ==
    /\ query.pc = "done"
    /\ query.target = "en"
    /\ query.list.translation_languages = <<"fr", "en">>
    /\ query.result.tag = "Ok"
    /\ query.result.items.translated_to = <<"en">>
    /\ \A c \in DOMAIN query.list.generated :
          query.list.generated[c].translated_to = <<>>

\* C19: in a playlist run, whatever -o and -n are, no two videos with
\* distinct IDs are given the same output destination, and no destination is
\* stdout.
C19_OwnFilePerVideo ==
    run.args.playlist =>
        \A i \in DOMAIN run.dests :
            /\ run.dests[i].dest.tag = "File"
            /\ \A j \in DOMAIN run.dests :
                  run.dests[i].video_id # run.dests[j].video_id
                      => run.dests[i].dest # run.dests[j].dest

\* Somewhere in str is one of the six named entities or a numeric reference
\* to a character.
HasRecognized(str) ==
    \E i \in DOMAIN str :
        /\ str[i] = "&"
        /\ IsEntityAt(Drop(str, i))
        /\ Recognized(NameAt(Drop(str, i)))

\* C20: decode_html_entities returns its input unchanged when the input holds
\* no recognized named entity and no numeric reference to a character, so for
\* every input without "&" and for an "&" that no ";" follows.
C20_UnchangedWithoutEntity ==
    (dpc = "done" /\ ~HasRecognized(s)) => dresult = s

----------------------------------------------------------------------------
(* Termination of parse and of decode_html_entities *)

\* The documents of the runs to the end: sequences of cues, whole or cut
\* short, one cue with any content, and a cue inside a cue.
TerminatingDocs == CueDocs \cup BodyDocs \cup NestedDocs

\* The inputs of decode_html_entities of the runs to the end: each entity
\* and each malformed one, in each context.
TerminatingInputs ==
    { pre \o e \o post :
        pre \in DecodeContexts, e \in DecodeEntities, post \in DecodeContexts }

\* One call of parse or one call of decode_html_entities.
InitTerminates ==
    \/ /\ parser \in { NewParser(b) : b \in BOOLEAN }
       /\ xml \in TerminatingDocs
       /\ frame = NewFrame
       /\ DecodeIdle
       /\ RunIdle
       /\ LibIdle
    \/ /\ s \in TerminatingInputs
       /\ chars = s
       /\ dresult = <<>>
       /\ dpc = "loop"
       /\ ParseIdle
       /\ RunIdle
       /\ LibIdle

NextTerminates == Next \/ NextDecode

SpecTerminates == InitTerminates /\ [][NextTerminates]_vars

\* parse is in one of its three loops.
InLoop == frame.pc \in {"parse", "text", "p"}

\* Every position of the reader: before a piece of the document or at its end.
ReaderInDocument == InLoop => frame.reader.pos \in 1..(Len(xml) + 1)

\* The next iteration does something: no loop of parse stays where it is.
Iterates == InLoop => ParseStep(parser, xml, frame) # frame

\* parse returns Ok or Err.
Returned == frame.pc = "done" => frame.result.tag \in {"Ok", "Err"}

\* An iteration of a loop of parse reads one event: the reader moves on, or
\* the event is the end of the input and parse returns.
ConsumesEvent ==
    InLoop =>
        \/ frame'.reader.pos > frame.reader.pos
        \/ Event.kind = "Eof" /\ frame'.pc = "done"

\* The loop of an element is left on the end tag of the element's name, for
\* the loop of parse, or by a return of Err from parse, on the end of the
\* input or on an error of the reader or of unescape.
LeavesElement ==
    (frame.pc \in {"text", "p"} /\ frame'.pc # frame.pc) =>
        \/ Event.kind = "End" /\ Event.name = frame.pc /\ frame'.pc = "parse"
        \/ /\ Event.kind \in {"Eof", "Err", "Text"}
           /\ frame'.pc = "done"
           /\ frame'.result.tag = "Err"

\* An iteration of the loop of decode_html_entities takes at least one
\* character, and the loop ends when none is left.
ConsumesChar ==
    dpc = "loop" =>
        \/ Len(chars') < Len(chars)
        \/ chars = <<>> /\ dpc' = "done"

\* C21: a call of parse makes at most one iteration for each piece of the
\* document and one for its end, and returns Ok or Err: the reader stays in
\* the document, no loop stays where it is, each iteration of the three
\* loops reads one reader event, the loop of an element is left on the end
\* tag of its name, on the end of the input or on an error, and each
\* iteration of decode_html_entities takes at least one character.
C21_ParseTerminates ==
    /\ [](ReaderInDocument /\ Iterates /\ Returned)
    /\ [][ConsumesEvent /\ LeavesElement /\ ConsumesChar]_vars

\* An element with a marker in it left on its end tag, parse returned Ok.
C21_Witness ==
    /\ frame.pc = "done"
    /\ frame.result.tag = "Ok"
    /\ Len(frame.result.items) > 0
    /\ frame.reader.pos = Len(xml) + 1
    /\ \E i \in 1..Len(xml) : xml[i].kind = "Start" /\ xml[i].name = "s"

----------------------------------------------------------------------------
(* The destination is resolved before anything is written *)

\* process_single_video is at `let output_dest = ...`.
Resolving == run.pc = "fetched"

\* -n is given and the transcript fetched has no title.
Untitled == Resolving /\ run.args.name /\ run.title = <<>>

\* The file is to be named after the title: there is no -o, or -o is a
\* directory.
TitleNeeded == run.args.output = <<>> \/ IsDirectory(run.args.output[1])

\* The call returns YouTubeDataUnparsable from the resolution: no destination
\* is resolved and the call does not get to its output.
FailsUnwritten ==
    /\ run'.returns = Append(run.returns, Err("YouTubeDataUnparsable"))
    /\ run'.dests = run.dests
    /\ run'.pc \in {"loop", "returned"}

\* The call gets to its output (the match on the format, where output_*
\* opens the writer) only from a resolution that gave a destination, the one
\* the output is given; a resolution that fails returns its error at once
\* and resolves nothing.  The output is the one step that follows on it.
ResolvedBeforeWritten ==
    /\ run'.pc = "resolved" =>
          /\ Resolving
          /\ OutputDest(run.args, run.title, run.call.video_id,
                        run.call.video_index) = Resolved(run'.output_dest)
          /\ run'.dests = Append(run.dests, [video_id |-> run.call.video_id,
                                             dest |-> run'.output_dest])
          /\ run'.returns = run.returns
    /\ (Resolving /\ run'.returns # run.returns) =>
          /\ run'.dests = run.dests
          /\ run'.pc \in {"loop", "returned"}
          /\ run'.returns[Len(run'.returns)].tag = "Err"
    /\ WriteOutput => run.pc = "resolved" /\ run'.dests = run.dests

====
